---- MODULE Spec2Model ----
(***************************************************************************)
(* Model of the attack-simulation console's client tier:                   *)
(*   - the stream client hook useAgentEventStream (lib/streaming),         *)
(*   - the retry wrapper hook useWebSocketWithRetry layered over it,       *)
(*   - the application reducer appReducer (types/app-state),               *)
(*   - the event handlers (lib/event-handlers) and the useAppState hook    *)
(*     that binds them to the reducer,                                     *)
(*   - the validators, the graph size guard, the retry helper and the      *)
(*     circuit breaker of lib/error-recovery.                              *)
(* Every handler of the hooks is one action; the callbacks a handler calls *)
(* synchronously (updateStatus -> handleStatusChange, connect, ...) are    *)
(* part of that action.  Timers and transport events are separate actions. *)
(***************************************************************************)
EXTENDS Integers, Sequences, FiniteSets, TLC

(***************************************************************************)
(* Bounds of the model.                                                    *)
(***************************************************************************)
MaxDetached == 2      \* connecting or open sockets no longer referenced by socketRef
MaxStaleTimers == 1   \* pending wrapper timers no longer held by retryTimeoutRef
MaxAttempts == 2      \* cap on attemptsRef
MaxRetryCount == 6    \* cap on retryCountRef
MaxMsgs == 2          \* outbound messages offered to sendMessage
MaxLogAdds == 200     \* LOG_ENTRY_ADDED dispatches
MaxChatIds == 123     \* distinct chat message ids
MaxChatAccepted == 124 \* CHAT_MESSAGE_ADDED dispatches that are not duplicates
MaxChatDups == 1      \* CHAT_MESSAGE_ADDED dispatches that are duplicates
SmallAdds == 1        \* dispatches of the kind a specification is not about
MaxHandled == 3       \* calls of the useAppState handlers
MaxTicks == 3         \* advances of the clock the circuit breaker reads
MaxFailures == 6      \* cap on the circuit breaker's failure count
MaxInFlight == 2      \* operations awaited at once inside CircuitBreaker.execute
MaxRetriesArg == 8    \* largest maxRetries given to createRetryHandler
MaxUploads == 2       \* uploads started in the graph uploader
MaxFrames == 3        \* events delivered to the debounced handler
MaxSimFrames == 3     \* stream frames the simulation monitor receives
MaxEffectRuns == 4    \* runs of the monitor's lastEvent effect
MaxBackoffAttempt == 10  \* largest attempt count given to computeBackoff
MaxLayoutNodes == 10  \* nodes of a graph handed to applyLayout
MaxLayoutRuns == 3    \* calls of applyLayout on one graph
MaxDebounceTicks == 4 \* advances of the clock the debounce timer runs on

(***************************************************************************)
(* Program constants.                                                      *)
(***************************************************************************)
maxRetries == 5
MAX_LOG_ENTRIES == 80
MAX_CHAT_MESSAGES == 120

ConnectionState == {"idle", "connecting", "open", "retrying", "closed", "error"}
ReadyState == {"CONNECTING", "OPEN", "CLOSING", "CLOSED"}

VARIABLES
    \* ---- useAgentEventStream
    status,               \* useState<ConnectionState>
    socketRef,            \* "null", or the readyState of the referenced socket
    detached,             \* connecting or open sockets no longer referenced
    reconnectTimeoutRef,  \* TRUE iff the client's backoff timer is pending
    attemptsRef,
    manualCloseRef,
    autoReconnect,        \* option of the hook
    \* ---- useWebSocketWithRetry
    wrapped,              \* TRUE iff the retry wrapper is layered over the client
    retryCountRef,
    retryTimeoutRef,      \* "null", "pending" or "fired" (handle kept after firing)
    staleRetryTimers,     \* pending timers whose handle was overwritten
    isManualCloseRef,
    \* ---- transport output and history
    sent,                 \* messages handed to socket.send
    offeredNotOpen,       \* messages passed to sendMessage while not open
    nextMsg,
    mounted,              \* the mount effect has run
    wsUrlValid,           \* FALSE iff new WebSocket(wsUrl) raises
    lastOp,               \* the handler that ran last
    connectCalls,         \* calls of connect() made by the last handler
    threw,                \* the last handler's socket.send raised
    manualClosed,         \* close() was called and reconnect() not since
    autoRetries,          \* retry-timer callbacks run since the status was last open
    \* ---- App (rich shell): the render that follows a status change, and its effect
    uiStatus,             \* connectionStatus as the last render of App saw it
    graphRequests,        \* the graph.request messages passed to sendMessage
    openRequests,         \* graph.request messages sent since the last onopen
    unmounted,            \* the cleanup of the client's mount effect has run
    orphanSocket,         \* the socket that cleanup closed keeps its handlers and is closing
    \* ---- useReducer(appReducer, initialAppState)
    state,
    logAdded,             \* LOG_ENTRY_ADDED dispatched so far
    chatAccepted,         \* payloads of the non-duplicate CHAT_MESSAGE_ADDED, in order
    chatDups,             \* CHAT_MESSAGE_ADDED dispatched with an id then present
    lastAction,           \* type of the action dispatched last
    \* ---- useAppState handlers and the debounced event callback of the rich shell
    pendingEvent,         \* argument held by the debounce timer of handleStreamEvent
    lastInput,            \* handler that ran last, and its argument
    dispatched,           \* actions the last handler dispatched, in order
    handled,              \* handler calls so far
    waitingBefore,        \* isWaitingForAgent when the last handler was called
    frameDropped,         \* a frame was dropped by onmessage's catch or by the validation
    \* ---- checkGraphLimits as a function under test
    limitsData,
    limitsResult,
    \* ---- CircuitBreaker
    cbState,
    cbFailures,
    cbLastFailureTime,
    now,                  \* Date.now(), in ms since the breaker was constructed
    cbInFlight,           \* operations awaited inside execute()
    cbLast,               \* what the last breaker step did
    cbBefore,             \* breaker state seen by the last execute() call
    cbTicks,              \* clock advances so far
    cbSinceSuccess,       \* operations that failed since the last one that succeeded
    \* ---- createRetryHandler(maxRetries, baseDelay)(operation)
    rhMaxRetries,
    rhPc,                 \* "idle", "invoking", "waiting", "returned" or "thrown"
    rhAttempt,
    rhInvocations,        \* calls of operation() so far
    rhWaits,              \* backoff delays awaited so far
    rhLastError,          \* lastError: the invocation whose error it is, 0 if none
    rhOutcome,            \* the value returned or the error thrown
    \* ---- GraphUploader (rich shell)
    upStatus,             \* useState<UploadStatus>
    upStatusMessage,      \* useState<string>, as the parts of its template literal
    upGraphStats,
    upTasks,              \* the calls of handleFileChange, loadSampleGraph and handleDrop
    upSets,               \* the values the last step passed to setStatus, in order
    upPrev,               \* status when the last step began
    upCalls,              \* calls of onGraphLoaded and of loadGraph, in order
    upLast,               \* what the last uploader step did
    \* ---- ChatPanel (rich shell) and App.handleSendChat
    chatDraft,            \* useState<string>: the composer's text
    onSendCalls,          \* the texts onSend was called with, in order
    chatLast,             \* the last submit attempt: its way and what it saw
    \* ---- useDebounce(handlers.handleStreamEvent, 50) under a clock
    dbNow,                \* the time, in ms
    dbTimer,              \* timeoutRef: the pending timer, its arguments and due time
    dbDelivered,          \* the events the transport delivered, with their arrival times
    dbDispatched,         \* the events the callback was called with, with the call times
    dbTicks,              \* clock advances so far
    \* ---- HomePage (plain shell)
    plain,                \* its useState cells, as one record
    \* ---- CypherQueryBar and ScenarioControls (rich shell)
    cqLoading,            \* CypherQueryBar useState<boolean>
    cqError,              \* CypherQueryBar error: <<>> for null, else <<message>>
    scLoading,            \* ScenarioControls useState<boolean>
    inLast,               \* the last step of the two panels
    \* ---- OptimizedLogPanel with useVirtualList
    vlCount,              \* logEntries.length of the last render
    vlDomTop,             \* container.scrollTop
    vlScrollTop,          \* useVirtualList's scrollTop.current
    vlResult,             \* the memoized visibleItems and totalHeight, as rendered
    vlLast,               \* what the last step of the panel was
    \* ---- SimulationPanel and its SimulationMonitor
    smLastEvent,          \* monitor useState lastEvent
    smActive,             \* monitor useState activeSimulation
    smEvents,             \* monitor useState events
    smVisible,            \* monitor useState isVisible
    smHideTimers,         \* pending setTimeout(() => setIsVisible(false), 5000)
    smDepsChanged,        \* a dependency of the effect changed since its last run
    smCompleted,          \* panel useState completedSimulations
    smError,              \* panel useState error: <<>> for null, else <<message>>
    smCalls,              \* the frames onComplete and onError were called with
    smFrames,             \* frames received so far
    smRuns,               \* runs of the effect so far
    \* ---- computeBackoff(attempt)
    bkAttempt,            \* the argument
    bkJitter,             \* Math.random() * 0.4 + 0.8, in thousandths
    bkDelay,              \* the value returned, in ms
    \* ---- InteractiveGraphCanvas.applyLayout on the graphology graph
    lyLayout,             \* settings.layout
    lyPos,                \* the x and y attributes of the nodes, in graph.nodes() order
    lyPrev,               \* the same before the last applyLayout
    lyApplied,            \* calls of applyLayout on this graph with this layout
    \* ---- the agent at the other end of the stream
    agPending             \* chat commands received on this connection, not yet answered

streamVars == <<status, socketRef, detached, reconnectTimeoutRef, attemptsRef,
                manualCloseRef, autoReconnect, wrapped, retryCountRef,
                retryTimeoutRef, staleRetryTimers, isManualCloseRef, sent,
                offeredNotOpen, nextMsg, mounted, wsUrlValid, lastOp, connectCalls, threw,
                manualClosed, autoRetries, uiStatus, graphRequests, openRequests,
                unmounted, orphanSocket>>
reducerVars == <<state, logAdded, chatAccepted, chatDups, lastAction>>
handlerVars == <<pendingEvent, lastInput, dispatched, handled, waitingBefore,
                 frameDropped>>
limitsVars == <<limitsData, limitsResult>>
breakerVars == <<cbState, cbFailures, cbLastFailureTime, now, cbInFlight, cbLast,
                 cbBefore, cbTicks, cbSinceSuccess>>
retryVars == <<rhMaxRetries, rhPc, rhAttempt, rhInvocations, rhWaits, rhLastError,
               rhOutcome>>
uploaderVars == <<upStatus, upStatusMessage, upGraphStats, upTasks, upSets, upPrev,
                  upCalls, upLast>>
chatPanelVars == <<chatDraft, onSendCalls, chatLast>>
debounceVars == <<dbNow, dbTimer, dbDelivered, dbDispatched, dbTicks>>
shellVars == <<plain>>
inputVars == <<cqLoading, cqError, scLoading, inLast>>
listVars == <<vlCount, vlDomTop, vlScrollTop, vlResult, vlLast>>
simVars == <<smLastEvent, smActive, smEvents, smVisible, smHideTimers, smDepsChanged,
             smCompleted, smError, smCalls, smFrames, smRuns>>
backoffVars == <<bkAttempt, bkJitter, bkDelay>>
layoutVars == <<lyLayout, lyPos, lyPrev, lyApplied>>
agentVars == <<agPending>>
pureVars == <<backoffVars, layoutVars, agentVars>>
panelVars == <<uploaderVars, chatPanelVars, debounceVars, shellVars, inputVars, listVars,
               simVars,
      pureVars>>
libVars == <<limitsVars, breakerVars, retryVars, panelVars>>
\* everything outside the stream client and the retry wrapper
appVars == <<reducerVars, handlerVars, libVars>>
vars == <<streamVars, appVars>>

Min(a, b) == IF a < b THEN a ELSE b
Max(a, b) == IF a > b THEN a ELSE b

(***************************************************************************)
(* The hooks' refs as one record, so that a handler can be composed of the *)
(* callbacks it calls.                                                     *)
(***************************************************************************)
Cur ==
    [status |-> status, socketRef |-> socketRef, detached |-> detached,
     reconnectTimeoutRef |-> reconnectTimeoutRef, attemptsRef |-> attemptsRef,
     manualCloseRef |-> manualCloseRef, autoReconnect |-> autoReconnect,
     wrapped |-> wrapped, retryCountRef |-> retryCountRef,
     retryTimeoutRef |-> retryTimeoutRef, staleRetryTimers |-> staleRetryTimers,
     isManualCloseRef |-> isManualCloseRef, sent |-> sent,
     wsUrlValid |-> wsUrlValid, connectCalls |-> 0, threw |-> FALSE,
     uiStatus |-> uiStatus, graphRequests |-> graphRequests,
     openRequests |-> openRequests, unmounted |-> unmounted,
     orphanSocket |-> orphanSocket]

WithinBounds(r) ==
    /\ r.detached <= MaxDetached
    /\ r.staleRetryTimers <= MaxStaleTimers
    /\ r.attemptsRef <= MaxAttempts
    /\ r.retryCountRef <= MaxRetryCount

Commit(r, op) ==
    /\ WithinBounds(r)
    /\ status' = r.status
    /\ socketRef' = r.socketRef
    /\ detached' = r.detached
    /\ reconnectTimeoutRef' = r.reconnectTimeoutRef
    /\ attemptsRef' = r.attemptsRef
    /\ manualCloseRef' = r.manualCloseRef
    /\ retryCountRef' = r.retryCountRef
    /\ retryTimeoutRef' = r.retryTimeoutRef
    /\ staleRetryTimers' = r.staleRetryTimers
    /\ isManualCloseRef' = r.isManualCloseRef
    /\ sent' = r.sent
    /\ connectCalls' = r.connectCalls
    /\ threw' = r.threw
    /\ lastOp' = op
    /\ uiStatus' = r.uiStatus
    /\ graphRequests' = r.graphRequests
    /\ openRequests' = IF op = "onopen" THEN 0 ELSE r.openRequests
    /\ unmounted' = r.unmounted
    /\ orphanSocket' = r.orphanSocket
    /\ UNCHANGED <<autoReconnect, wrapped, wsUrlValid>>

(***************************************************************************)
(* useWebSocketWithRetry.handleStatusChange                                *)
(***************************************************************************)
scheduleRetry(c) ==
    \* retryTimeoutRef.current = setTimeout(...): a pending handle is overwritten,
    \* not cleared, so its timer stays pending
    [c EXCEPT !.staleRetryTimers = @ + (IF c.retryTimeoutRef = "pending" THEN 1 ELSE 0),
              !.retryTimeoutRef = "pending"]

clearRetryTimeout(c) ==
    \* if (retryTimeoutRef.current) { clearTimeout(...); retryTimeoutRef.current = null }
    [c EXCEPT !.retryTimeoutRef = "null"]

handleStatusChange(c, s) ==
    LET c1 == IF s = "open"
              THEN clearRetryTimeout([c EXCEPT !.retryCountRef = 0])
              ELSE c
    IN  IF s = "closed" /\ ~c1.isManualCloseRef /\ c1.retryCountRef < maxRetries
        THEN scheduleRetry(c1)
        ELSE c1

(***************************************************************************)
(* useAgentEventStream                                                     *)
(***************************************************************************)
updateStatus(c, next) ==
    LET c1 == [c EXCEPT !.status = next]
    IN  IF c.wrapped THEN handleStatusChange(c1, next) ELSE c1

clearReconnectTimer(c) == [c EXCEPT !.reconnectTimeoutRef = FALSE]

scheduleReconnect(c) == [c EXCEPT !.reconnectTimeoutRef = TRUE]

cleanupSocket(c) ==
    \* detaches the four handlers and drops the reference; the socket is not closed
    IF c.socketRef # "null"
    THEN [c EXCEPT !.socketRef = "null",
                   !.detached = @ + (IF c.socketRef \in {"CONNECTING", "OPEN"} THEN 1 ELSE 0)]
    ELSE c

connect(c) ==
    LET c1 == cleanupSocket(clearReconnectTimer(c))
        c2 == updateStatus(c1, "connecting")
        c3 == [c2 EXCEPT !.connectCalls = @ + 1]
    IN  IF c.wsUrlValid
        THEN [c3 EXCEPT !.socketRef = "CONNECTING"]
        ELSE LET c4 == updateStatus(c3, "error")
             IN  IF c4.autoReconnect THEN scheduleReconnect(c4) ELSE c4

onopen(c) == updateStatus([c EXCEPT !.attemptsRef = 0], "open")

onerror(c) == updateStatus(c, "error")

onclose(c) ==
    LET c1 == cleanupSocket(c)
    IN  IF c1.manualCloseRef
        THEN updateStatus(c1, "closed")
        ELSE LET c2 == updateStatus(c1, "closed")
             IN  IF c2.autoReconnect THEN scheduleReconnect(c2) ELSE c2

reconnectTimerCallback(c) ==
    connect(updateStatus([c EXCEPT !.reconnectTimeoutRef = FALSE,
                                   !.attemptsRef = @ + 1], "retrying"))

closeSocketRef(c) ==
    \* socketRef.current?.close()
    IF c.socketRef \in {"CONNECTING", "OPEN"}
    THEN [c EXCEPT !.socketRef = "CLOSING"]
    ELSE c

close(c) ==
    LET c1 == [c EXCEPT !.manualCloseRef = TRUE]
        c2 == cleanupSocket(clearReconnectTimer(c1))
    IN  updateStatus(closeSocketRef(c2), "closed")

reconnect(c) ==
    connect([c EXCEPT !.manualCloseRef = FALSE, !.attemptsRef = 0])

\* sendMessage without the readyState test: any referenced socket is sent on
sendMessageUnchecked(c, m, sendThrows) ==
    IF c.socketRef = "null"
    THEN c
    ELSE IF sendThrows
         THEN [c EXCEPT !.threw = TRUE]
         ELSE [c EXCEPT !.sent = @ \cup {m}]

sendMessage(c, m, sendThrows) ==
    IF c.socketRef # "OPEN"
    THEN c
    ELSE IF sendThrows
         THEN [c EXCEPT !.threw = TRUE]
         ELSE [c EXCEPT !.sent = @ \cup {m}]

(***************************************************************************)
(* useWebSocketWithRetry                                                   *)
(***************************************************************************)
retryTimerCallback(c) ==
    reconnect([c EXCEPT !.retryCountRef = @ + 1])

\* sendMessageSafely that also reconnects when the status is not open
sendMessageSafelyReconnecting(c, m, sendThrows) ==
    LET c1 == IF c.status = "open" THEN sendMessage(c, m, sendThrows) ELSE c
    IN  IF (c.status # "open" \/ c1.threw) /\ c1.retryCountRef < maxRetries
        THEN reconnect([c1 EXCEPT !.retryCountRef = @ + 1])
        ELSE c1

sendMessageSafely(c, m, sendThrows) ==
    IF c.status = "open"
    THEN LET c1 == sendMessage(c, m, sendThrows)
         IN  IF c1.threw /\ c1.retryCountRef < maxRetries
             THEN reconnect([c1 EXCEPT !.retryCountRef = @ + 1])
             ELSE c1
    ELSE c

forceReconnect(c) ==
    LET c1 == clearRetryTimeout([c EXCEPT !.isManualCloseRef = FALSE])
    IN  IF c1.retryCountRef < maxRetries
        THEN reconnect([c1 EXCEPT !.retryCountRef = @ + 1])
        ELSE c1

closeConnection(c) ==
    close(clearRetryTimeout([c EXCEPT !.isManualCloseRef = TRUE]))

(***************************************************************************)
(* appReducer (types/app-state)                                            *)
(***************************************************************************)
Null == [null |-> TRUE]

initialAppState ==
    [graphData |-> Null, highlightedNodes |-> <<>>, scenarioStatus |-> Null,
     scenarioResults |-> Null, cypherResult |-> Null, logEntries |-> <<>>,
     chatMessages |-> <<>>, isWaitingForAgent |-> FALSE,
     connectionStatus |-> "idle"]

\* crypto.randomUUID(): a fresh id, here numbered by the dispatch that needs it
generateId(n) == 1000 + n

\* Array.prototype.slice(0, k)
SliceHead(s, k) == SubSeq(s, 1, Min(Len(s), k))

\* Array.prototype.slice(-k)
SliceTail(s, k) == SubSeq(s, Max(1, Len(s) - k + 1), Len(s))

ChatIds(msgs) == {msgs[i].id : i \in 1..Len(msgs)}

\* LOG_ENTRY_ADDED appending the entry instead of prepending it
reduceLogEntryAppended(st, payload, n) ==
    LET logEntry == [id |-> IF payload.id = 0 THEN generateId(n) ELSE payload.id,
                     message |-> payload.message, level |-> payload.level]
    IN  [st EXCEPT !.logEntries = SliceHead(Append(@, logEntry), MAX_LOG_ENTRIES)]

\* LOG_ENTRY_ADDED: { id: payload.id ?? generateId(), ...payload }; id 0 is "no id"
reduceLogEntryAdded(st, payload, n) ==
    LET logEntry == [id |-> IF payload.id = 0 THEN generateId(n) ELSE payload.id,
                     message |-> payload.message, level |-> payload.level]
    IN  [st EXCEPT !.logEntries = SliceHead(<<logEntry>> \o @, MAX_LOG_ENTRIES)]

\* CHAT_MESSAGE_ADDED without the duplicate test
reduceChatMessageNoDedup(st, payload) ==
    [st EXCEPT !.chatMessages = SliceTail(Append(@, payload), MAX_CHAT_MESSAGES)]

\* CHAT_MESSAGE_ADDED keeping the first MAX_CHAT_MESSAGES messages: slice(0, MAX)
reduceChatMessageKeepOldest(st, payload) ==
    IF \E i \in 1..Len(st.chatMessages) : st.chatMessages[i].id = payload.id
    THEN st
    ELSE [st EXCEPT !.chatMessages = SliceHead(Append(@, payload), MAX_CHAT_MESSAGES)]

reduceChatMessageAdded(st, payload) ==
    IF \E i \in 1..Len(st.chatMessages) : st.chatMessages[i].id = payload.id
    THEN st
    ELSE [st EXCEPT !.chatMessages = SliceTail(Append(@, payload), MAX_CHAT_MESSAGES)]

\* GRAPH_LOADED / GRAPH_REPLACED also discarding the last query's result
reduceGraphSetClearsCypher(st, payload) ==
    [st EXCEPT !.graphData = payload, !.highlightedNodes = <<>>,
               !.scenarioResults = Null, !.scenarioStatus = Null,
               !.cypherResult = Null]

\* GRAPH_LOADED / GRAPH_REPLACED keeping the highlights of the previous graph
reduceGraphSetKeepHighlights(st, payload) ==
    [st EXCEPT !.graphData = payload, !.scenarioResults = Null, !.scenarioStatus = Null]

reduceGraphSet(st, payload) ==
    [st EXCEPT !.graphData = payload, !.highlightedNodes = <<>>,
               !.scenarioResults = Null, !.scenarioStatus = Null]

appReducer(st, action, n) ==
    CASE action.type \in {"GRAPH_LOADED", "GRAPH_REPLACED"} ->
            reduceGraphSet(st, action.payload)
      [] action.type = "NODES_HIGHLIGHTED" ->
            [st EXCEPT !.highlightedNodes = action.payload]
      [] action.type = "SCENARIO_STATUS_UPDATED" ->
            [st EXCEPT !.scenarioStatus = action.payload]
      [] action.type = "SCENARIO_RESULTS_SET" ->
            [st EXCEPT !.scenarioResults = action.payload]
      [] action.type = "CYPHER_RESULT_SET" ->
            [st EXCEPT !.cypherResult = action.payload]
      [] action.type = "LOG_ENTRY_ADDED" ->
            reduceLogEntryAdded(st, action.payload, n)
      [] action.type = "CHAT_MESSAGE_ADDED" ->
            reduceChatMessageAdded(st, action.payload)
      [] action.type = "AGENT_WAITING_SET" ->
            [st EXCEPT !.isWaitingForAgent = action.payload]
      [] action.type = "CONNECTION_STATUS_CHANGED" ->
            [st EXCEPT !.connectionStatus = action.payload]
      [] OTHER -> st

(***************************************************************************)
(* JavaScript values as they arrive in stream frames.  A value of a        *)
(* primitive type is a record [t, v]: t is what typeof yields and v the    *)
(* text String(value) yields (for envelope ids, v is the number the model  *)
(* uses as the id).  An object is a record with js = "object" and its      *)
(* properties as fields; an absent property is an absent field.            *)
(***************************************************************************)
Str(s) == [t |-> "string", v |-> s]
Num(s) == [t |-> "number", v |-> s]
Undefined == [t |-> "undefined", v |-> ""]

typeof(x) == IF "t" \in DOMAIN x THEN x.t ELSE "object"

\* String(value)
String(x) == x.v

\* o?.f : undefined when o is not an object or has no property f
Get(o, f) == IF "js" \in DOMAIN o /\ o.js = "object" /\ f \in DOMAIN o THEN o[f] ELSE Undefined

\* !!x for the payloads of the model: null and undefined are falsy
Truthy(x) == IF "js" \in DOMAIN x THEN x.js \notin {"null", "undefined"}
             ELSE x.t # "undefined" /\ x.v # ""

\* x ?? d
Coalesce(x, d) == IF typeof(x) = "undefined" THEN d ELSE x

IsArray(x) == "isArray" \in DOMAIN x /\ x.isArray

Range(s) == {s[i] : i \in 1..Len(s)}

(***************************************************************************)
(* lib/error-recovery: validators and the graph size guard.  An array of   *)
(* nodes or edges is [isArray, length, defect]: defect names what is wrong *)
(* with at least one of its items, "none" if every item is well formed.    *)
(***************************************************************************)
MAX_NODES == 10000
MAX_EDGES == 50000
WARN_NODES == 1000
WARN_EDGES == 5000

NodeDefects == {"idMissing", "idNotString", "labelsNotArray"}
EdgeDefects == {"idMissing", "sourceMissing", "targetNotString", "typeMissing"}

validateGraphData(data) ==
    /\ Truthy(data)
    /\ data.js = "object"
    /\ IsArray(Get(data, "nodes"))
    /\ IsArray(Get(data, "edges"))
    /\ data.nodes.defect \notin NodeDefects
    /\ data.edges.defect \notin EdgeDefects

validateWebSocketMessage(message) ==
    /\ Truthy(message)
    /\ message.js = "object"
    /\ typeof(Get(message, "id")) = "string"
    /\ typeof(Get(message, "type")) = "string"
    /\ typeof(Get(message, "createdAt")) = "string"

\* checkGraphLimits with both hard limits compared by >= instead of >
checkGraphLimitsInclusive(data) ==
    IF ~validateGraphData(data)
    THEN [valid |-> FALSE, warnings |-> <<>>, errors |-> <<<<"Invalid graph data format">>>>]
    ELSE LET nodeCount == data.nodes.length
             edgeCount == data.edges.length
             nodeErr == IF nodeCount >= MAX_NODES
                        THEN <<<<"Too many nodes", nodeCount, MAX_NODES>>>> ELSE <<>>
             nodeWarn == IF nodeCount < MAX_NODES /\ nodeCount > WARN_NODES
                         THEN <<<<"Large graph nodes", nodeCount>>>> ELSE <<>>
             edgeErr == IF edgeCount >= MAX_EDGES
                        THEN <<<<"Too many edges", edgeCount, MAX_EDGES>>>> ELSE <<>>
             edgeWarn == IF edgeCount < MAX_EDGES /\ edgeCount > WARN_EDGES
                         THEN <<<<"Large graph edges", edgeCount>>>> ELSE <<>>
         IN  [valid |-> Len(nodeErr \o edgeErr) = 0, warnings |-> nodeWarn \o edgeWarn,
              errors |-> nodeErr \o edgeErr]

\* a message is the tuple of the parts its template literal joins
checkGraphLimits(data) ==
    IF ~validateGraphData(data)
    THEN [valid |-> FALSE, warnings |-> <<>>, errors |-> <<<<"Invalid graph data format">>>>]
    ELSE LET nodeCount == data.nodes.length
             edgeCount == data.edges.length
             nodeErr == IF nodeCount > MAX_NODES
                        THEN <<<<"Too many nodes", nodeCount, MAX_NODES>>>> ELSE <<>>
             nodeWarn == IF nodeCount <= MAX_NODES /\ nodeCount > WARN_NODES
                         THEN <<<<"Large graph nodes", nodeCount>>>> ELSE <<>>
             edgeErr == IF edgeCount > MAX_EDGES
                        THEN <<<<"Too many edges", edgeCount, MAX_EDGES>>>> ELSE <<>>
             edgeWarn == IF edgeCount <= MAX_EDGES /\ edgeCount > WARN_EDGES
                         THEN <<<<"Large graph edges", edgeCount>>>> ELSE <<>>
         IN  [valid |-> Len(nodeErr \o edgeErr) = 0, warnings |-> nodeWarn \o edgeWarn,
              errors |-> nodeErr \o edgeErr]

(***************************************************************************)
(* lib/event-handlers.  A handler is the sequence of actions it dispatches *)
(* for an event.  The id of a log entry or chat message is the number v of *)
(* the envelope id; 0 stands for "no id given".                            *)
(***************************************************************************)
LogAction(id, message, level) ==
    [type |-> "LOG_ENTRY_ADDED", payload |-> [id |-> id, message |-> message, level |-> level]]

WaitingAction(b) == [type |-> "AGENT_WAITING_SET", payload |-> b]

isGraphPayload(payload) ==
    /\ "js" \in DOMAIN payload
    /\ payload.js = "object"
    /\ IsArray(Get(payload, "nodes"))
    /\ IsArray(Get(payload, "edges"))

coerceScenarioStatus(payload) ==
    IF ~Truthy(payload) \/ payload.js # "object"
    THEN Null
    ELSE IF typeof(Get(payload, "jobId")) = "string" /\ typeof(Get(payload, "status")) = "string"
         THEN [jobId |-> payload.jobId.v, status |-> payload.status.v,
               startedAt |-> Get(payload, "startedAt"),
               completedAt |-> Get(payload, "completedAt"),
               details |-> Get(payload, "details")]
         ELSE Null

\* Set.add followed by Array.from: insertion order, no repetition
AddId(ids, id) == IF id \in Range(ids) THEN ids ELSE Append(ids, id)

RECURSIVE AddEntries(_, _)
AddEntries(ids, elems) ==
    IF elems = <<>> THEN ids
    ELSE LET entry == Head(elems)
             next == IF Truthy(entry) /\ entry.js \in {"object", "array"} /\ "id" \in DOMAIN entry
                     THEN AddId(ids, String(entry.id)) ELSE ids
         IN  AddEntries(next, Tail(elems))

RECURSIVE AddValues(_, _)
AddValues(ids, values) ==
    IF values = <<>> THEN ids
    ELSE LET value == Head(values)
             next == IF Truthy(value) /\ value.js \in {"object", "array"}
                     THEN IF value.js = "array" THEN AddEntries(ids, value.elems)
                          ELSE IF "id" \in DOMAIN value THEN AddId(ids, String(value.id))
                          ELSE ids
                     ELSE ids
         IN  AddValues(next, Tail(values))

RECURSIVE AddRecords(_, _)
AddRecords(ids, records) ==
    IF records = <<>> THEN ids
    ELSE AddRecords(AddValues(ids, Head(records)), Tail(records))

\* a record of the result is the sequence Object.values(record)
extractCypherNodeIds(result) ==
    IF "records" \notin DOMAIN result THEN <<>> ELSE AddRecords(<<>>, result.records)

\* handleAgentMessage without the test of the role
handleAgentMessageAnyRole(event) ==
    LET payload == event.payload
    IN  IF ~Truthy(payload) \/ typeof(Get(payload, "content")) # "string"
        THEN <<>>
        ELSE <<[type |-> "CHAT_MESSAGE_ADDED",
                payload |-> [id |-> event.id.v, role |-> String(Get(payload, "role")),
                             content |-> payload.content.v]],
               WaitingAction(FALSE)>>

handleAgentMessage(event) ==
    LET payload == event.payload
    IN  IF ~Truthy(payload) \/ typeof(Get(payload, "content")) # "string"
        THEN <<>>
        ELSE <<[type |-> "CHAT_MESSAGE_ADDED",
                payload |-> [id |-> event.id.v, role |-> String(Get(payload, "role")),
                             content |-> payload.content.v]]>>
             \o (IF Get(payload, "role") = Str("assistant")
                 THEN <<WaitingAction(FALSE)>> ELSE <<>>)

handleAgentLog(event) ==
    LET payload == event.payload
        level == Coalesce(event.level, Str("info"))
        message == Coalesce(Get(payload, "message"),
                            Coalesce(Get(payload, "text"), event.type))
    IN  <<LogAction(event.id.v, <<message.v>>, level.v)>>
        \o (IF level = Str("error") THEN <<WaitingAction(FALSE)>> ELSE <<>>)

handleAgentStep(event) ==
    LET name == Get(event.payload, "name")
    IN  <<LogAction(event.id.v,
                    IF Truthy(name) THEN <<"Tool", name.v>> ELSE <<"Tool invocation">>,
                    Coalesce(event.level, Str("debug")).v)>>

\* handleScenarioStatus logging every status at level info
handleScenarioStatusInfo(event) ==
    LET st == coerceScenarioStatus(event.payload)
    IN  IF st = Null THEN <<>>
        ELSE <<[type |-> "SCENARIO_STATUS_UPDATED", payload |-> st],
               LogAction(event.id.v, <<"Scenario", st.jobId, "is", st.status>>, "info")>>

handleScenarioStatus(event) ==
    LET st == coerceScenarioStatus(event.payload)
    IN  IF st = Null THEN <<>>
        ELSE <<[type |-> "SCENARIO_STATUS_UPDATED", payload |-> st],
               LogAction(event.id.v, <<"Scenario", st.jobId, "is", st.status>>,
                         IF st.status = "failed" THEN "error" ELSE "info")>>

handleScenarioResult(event) ==
    LET payload == event.payload
    IN  IF ~Truthy(payload) THEN <<>>
        ELSE <<[type |-> "SCENARIO_RESULTS_SET", payload |-> Get(payload, "findings")],
               LogAction(event.id.v,
                         <<"Scenario results ready for", String(Get(payload, "jobId"))>>,
                         "info")>>

handleGraphReplace(event) ==
    IF ~isGraphPayload(event.payload) THEN <<>>
    ELSE <<[type |-> "GRAPH_REPLACED", payload |-> event.payload],
           LogAction(event.id.v, <<"Graph snapshot replaced from agent stream">>, "info")>>

\* payload.nodeIds, when present, is an array of strings, given as a sequence;
\* coerceHighlight is reached only without it and then yields []
handleGraphHighlight(event) ==
    LET payload == event.payload
        nodes == IF "js" \in DOMAIN payload /\ payload.js = "object"
                    /\ "nodeIds" \in DOMAIN payload
                 THEN payload.nodeIds ELSE <<>>
    IN  IF Len(nodes) = 0 THEN <<>>
        ELSE <<[type |-> "NODES_HIGHLIGHTED", payload |-> nodes],
               LogAction(event.id.v,
                         <<"Highlighting", Len(nodes), "node(s) from agent stream">>,
                         "debug")>>

handleNotification(event) ==
    <<LogAction(event.id.v,
                <<Coalesce(Get(event.payload, "message"), Str("Notification received")).v>>,
                Coalesce(event.level, Str("info")).v)>>

handleDefault(event) ==
    <<LogAction(event.id.v, <<event.type.v>>, Coalesce(event.level, Str("info")).v)>>

processEvent(event) ==
    CASE event.type.v = "agent.message" -> handleAgentMessage(event)
      [] event.type.v = "agent.log" -> handleAgentLog(event)
      [] event.type.v = "agent.step" -> handleAgentStep(event)
      [] event.type.v = "scenario.status" -> handleScenarioStatus(event)
      [] event.type.v = "scenario.result" -> handleScenarioResult(event)
      [] event.type.v = "graph.replace" -> handleGraphReplace(event)
      [] event.type.v = "graph.highlight" -> handleGraphHighlight(event)
      [] event.type.v = "notification" -> handleNotification(event)
      [] OTHER -> handleDefault(event)

handleGraphLoaded(payload) ==
    <<[type |-> "GRAPH_LOADED", payload |-> payload],
      LogAction(0, <<"Loaded graph with", payload.nodes.length, payload.edges.length>>,
                "info")>>

\* handleCypherResult replacing the highlights only by a non-empty list of ids
handleCypherResult(result) ==
    LET ids == extractCypherNodeIds(result)
    IN  <<[type |-> "CYPHER_RESULT_SET", payload |-> result]>>
        \o (IF Len(ids) > 0 THEN <<[type |-> "NODES_HIGHLIGHTED", payload |-> ids]>>
            ELSE <<>>)
        \o <<LogAction(0, <<"Cypher returned",
                            IF "records" \in DOMAIN result THEN Len(result.records) ELSE 0,
                            "record(s)">>, "debug")>>

handleConnectionStatusChange(s) ==
    <<LogAction(0,
                CASE s = "open" -> <<"Agent stream connected">>
                  [] s = "retrying" -> <<"Agent stream retrying">>
                  [] s = "error" -> <<"Agent stream encountered an error">>
                  [] s = "closed" -> <<"Agent stream closed">>
                  [] OTHER -> <<"Agent stream status:", s>>,
                IF s = "error" THEN "error" ELSE IF s = "retrying" THEN "warn" ELSE "info")>>

(***************************************************************************)
(* useAppState: the handlers handed to the panels and to the stream hook.  *)
(* processEvent raises nothing for the events of the model, so the catch   *)
(* branches of handleStreamEvent and handleGraphLoadedEvent are not taken. *)
(***************************************************************************)
\* handleStreamEvent without the envelope validation
handleStreamEventUnvalidated(event) ==
    IF "js" \in DOMAIN event /\ event.js = "object" /\ typeof(Get(event, "type")) = "string"
       /\ "v" \in DOMAIN Get(event, "id")
    THEN processEvent(event) ELSE <<>>

handleStreamEvent(event) ==
    IF ~validateWebSocketMessage(event) THEN <<>> ELSE processEvent(event)

\* handleGraphLoadedEvent loading the graph even when the validation failed
handleGraphLoadedEventAlways(payload) ==
    LET validation == checkGraphLimits(payload)
    IN  (IF ~validation.valid
         THEN <<LogAction(0, <<"Graph validation failed", validation.errors>>, "error")>>
         ELSE [i \in 1..Len(validation.warnings) |->
                  LogAction(0, validation.warnings[i], "warn")])
        \o (IF validateGraphData(payload) THEN handleGraphLoaded(payload) ELSE <<>>)

handleGraphLoadedEvent(payload) ==
    LET validation == checkGraphLimits(payload)
    IN  IF ~validation.valid
        THEN <<LogAction(0, <<"Graph validation failed", validation.errors>>, "error")>>
        ELSE [i \in 1..Len(validation.warnings) |->
                 LogAction(0, validation.warnings[i], "warn")]
             \o handleGraphLoaded(payload)

handleCypherResultEvent(result) == handleCypherResult(result)

appHandleStatusChange(s) ==
    <<[type |-> "CONNECTION_STATUS_CHANGED", payload |-> s]>> \o handleConnectionStatusChange(s)

setWaitingForAgent(waiting) == <<WaitingAction(waiting)>>

\* the state after dispatching the actions in order; n numbers the next log entry
RECURSIVE Reduce(_, _, _)
Reduce(st, actions, n) ==
    IF Len(actions) = 0 THEN st
    ELSE Reduce(appReducer(st, Head(actions), n), Tail(actions),
                IF Head(actions).type = "LOG_ENTRY_ADDED" THEN n + 1 ELSE n)

OfType(actions, type) == SelectSeq(actions, LAMBDA a : a.type = type)

(***************************************************************************)
(* lib/error-recovery: AppError, CircuitBreaker.                           *)
(***************************************************************************)
AppError(message, code, recoverable) ==
    [message |-> message, code |-> code, recoverable |-> recoverable]

threshold == 5
timeout == 60000

\* onFailure opening the breaker only when the failures exceed the threshold
onFailureLate(b, t) ==
    [b EXCEPT !.failures = @ + 1, !.lastFailureTime = t,
              !.state = IF b.failures + 1 > threshold THEN "OPEN" ELSE @]

\* onSuccess leaving the failure count as it is
onSuccessKeepFailures(b) == [b EXCEPT !.state = "CLOSED"]

onSuccess(b) == [b EXCEPT !.failures = 0, !.state = "CLOSED"]

onFailure(b, t) ==
    [b EXCEPT !.failures = @ + 1, !.lastFailureTime = t,
              !.state = IF b.failures + 1 >= threshold THEN "OPEN" ELSE @]

\* execute() letting a call through as soon as any time has passed
executeEntryNoWindow(b, t) ==
    IF b.state = "OPEN"
    THEN IF t - b.lastFailureTime < 1
         THEN [b |-> b, invoke |-> FALSE,
               error |-> AppError("Circuit breaker is OPEN", "CIRCUIT_BREAKER_OPEN", TRUE)]
         ELSE [b |-> [b EXCEPT !.state = "HALF_OPEN"], invoke |-> TRUE]
    ELSE [b |-> b, invoke |-> TRUE]

\* execute() up to the call of operation(): the breaker after the test of the
\* state, whether operation() is invoked, and the error raised if it is not
executeEntry(b, t) ==
    IF b.state = "OPEN"
    THEN IF t - b.lastFailureTime < timeout
         THEN [b |-> b, invoke |-> FALSE,
               error |-> AppError("Circuit breaker is OPEN", "CIRCUIT_BREAKER_OPEN", TRUE)]
         ELSE [b |-> [b EXCEPT !.state = "HALF_OPEN"], invoke |-> TRUE]
    ELSE [b |-> b, invoke |-> TRUE]

\* the error of createRetryHandler counting the retries instead of the attempts
maxRetriesExceededRetriesCounted(lastError, attempt) ==
    [message |-> "Operation failed", code |-> "MAX_RETRIES_EXCEEDED", recoverable |-> FALSE,
     originalError |-> lastError, attempts |-> attempt]

\* the error createRetryHandler raises after the last attempt
maxRetriesExceeded(lastError, attempt) ==
    [message |-> "Operation failed", code |-> "MAX_RETRIES_EXCEEDED", recoverable |-> FALSE,
     originalError |-> lastError, attempts |-> attempt + 1]

(***************************************************************************)
(* lib/streaming computeBackoff.  The jitter Math.random() * 0.4 + 0.8 is  *)
(* given in thousandths, 800..1199, so that the product with the base of   *)
(* 1000 ms is a whole number of ms.                                        *)
(***************************************************************************)
BACKOFF_BASE_MS == 1000
BACKOFF_MAX_MS == 15000

Jitters == 800..1199

\* computeBackoff without the ceiling BACKOFF_MAX_MS
computeBackoffNoCeiling(attempt, jitter) ==
    (BACKOFF_BASE_MS * 2^Min(attempt, 8) * jitter) \div 1000

computeBackoff(attempt, jitter) ==
    LET cappedAttempt == Min(attempt, 8)
    IN  Min((BACKOFF_BASE_MS * 2^cappedAttempt * jitter) \div 1000, BACKOFF_MAX_MS)

(***************************************************************************)
(* Initial state: the hooks' refs and the reducer state after construction *)
(* (before the mount effect).  The plain shell uses the stream client      *)
(* alone; the rich shell layers the retry wrapper, which passes no         *)
(* autoReconnect option, so the default (true) applies.                    *)
(***************************************************************************)
Init ==
    /\ status = "idle"
    /\ socketRef = "null"
    /\ detached = 0
    /\ reconnectTimeoutRef = FALSE
    /\ attemptsRef = 0
    /\ manualCloseRef = FALSE
    /\ wrapped \in BOOLEAN
    /\ autoReconnect \in (IF wrapped THEN {TRUE} ELSE BOOLEAN)
    /\ wsUrlValid \in BOOLEAN
    /\ retryCountRef = 0
    /\ retryTimeoutRef = "null"
    /\ staleRetryTimers = 0
    /\ isManualCloseRef = FALSE
    /\ sent = {}
    /\ offeredNotOpen = {}
    /\ nextMsg = 1
    /\ mounted = FALSE
    /\ lastOp = "init"
    /\ connectCalls = 0
    /\ threw = FALSE
    /\ manualClosed = FALSE
    /\ autoRetries = 0
    /\ uiStatus = "idle"
    /\ graphRequests = {}
    /\ openRequests = 0
    /\ unmounted = FALSE
    /\ orphanSocket = FALSE
    /\ state = initialAppState
    /\ logAdded = 0
    /\ chatAccepted = <<>>
    /\ chatDups = 0
    /\ lastAction = "INIT"
    /\ pendingEvent = [set |-> FALSE]
    /\ lastInput = [handler |-> "none"]
    /\ dispatched = <<>>
    /\ handled = 0
    /\ waitingBefore = FALSE
    /\ frameDropped = FALSE
    /\ limitsData = [js |-> "undefined"]
    /\ limitsResult = checkGraphLimits(limitsData)
    /\ cbState = "CLOSED"
    /\ cbFailures = 0
    /\ cbLastFailureTime = 0
    /\ now = 0
    /\ cbInFlight = 0
    /\ cbLast = [op |-> "init"]
    /\ cbBefore = "CLOSED"
    /\ cbTicks = 0
    /\ cbSinceSuccess = 0
    /\ rhMaxRetries = 0
    /\ rhPc = "idle"
    /\ rhAttempt = 0
    /\ rhInvocations = 0
    /\ rhWaits = 0
    /\ rhLastError = 0
    /\ rhOutcome = [kind |-> "none"]
    /\ upStatus = "idle"
    /\ upStatusMessage = <<"No graph loaded">>
    /\ upGraphStats = [null |-> TRUE]
    /\ upTasks = <<>>
    /\ upSets = <<>>
    /\ upPrev = "idle"
    /\ upCalls = <<>>
    /\ upLast = [op |-> "init"]
    /\ chatDraft = ""
    /\ onSendCalls = <<>>
    /\ chatLast = [via |-> "none"]
    /\ dbNow = 0
    /\ dbTimer = [set |-> FALSE]
    /\ dbDelivered = <<>>
    /\ dbDispatched = <<>>
    /\ dbTicks = 0
    /\ plain = [graphData |-> Null, highlightedNodes |-> <<>>, scenarioStatus |-> Null,
                 scenarioResults |-> Null, cypherResult |-> Null, logEntries |-> <<>>]
    /\ cqLoading = FALSE
    /\ cqError = <<>>
    /\ scLoading = FALSE
    /\ inLast = [panel |-> "none", outcome |-> "none"]
    /\ vlCount = 0
    /\ vlDomTop = 0
    /\ vlScrollTop = 0
    /\ vlResult = [visibleItems |-> <<>>, totalHeight |-> 0]
    /\ vlLast = "init"
    /\ smLastEvent = Null
    /\ smActive = Null
    /\ smEvents = <<>>
    /\ smVisible = FALSE
    /\ smHideTimers = 0
    /\ smDepsChanged = FALSE
    /\ smCompleted = <<>>
    /\ smError = <<>>
    /\ smCalls = <<>>
    /\ smFrames = 0
    /\ smRuns = 0
    /\ bkAttempt = 0
    /\ bkJitter = 800
    /\ bkDelay = computeBackoff(0, 800)
    /\ lyLayout = "force"
    /\ lyPos = <<>>
    /\ lyPrev = <<>>
    /\ lyApplied = 0
    /\ agPending = 0

(***************************************************************************)
(* Actions of the stream client and the retry wrapper.                     *)
(***************************************************************************)
\* useEffect(() => { manualCloseRef = false; attemptsRef = 0; connect(); ... })
Mount ==
    /\ ~mounted
    /\ mounted' = TRUE
    /\ Commit(connect([Cur EXCEPT !.manualCloseRef = FALSE, !.attemptsRef = 0]), "mount")
    /\ UNCHANGED <<sent, offeredNotOpen, nextMsg, manualClosed, autoRetries, appVars>>

\* the referenced socket's open event
SocketOpen ==
    /\ mounted
    /\ socketRef = "CONNECTING"
    /\ Commit(onopen([Cur EXCEPT !.socketRef = "OPEN"]), "onopen")
    /\ autoRetries' = 0
    /\ UNCHANGED <<offeredNotOpen, nextMsg, mounted, manualClosed, appVars>>

\* the referenced socket's error event: the connection has failed and is closing
SocketError ==
    /\ mounted
    /\ socketRef \in {"CONNECTING", "OPEN"}
    /\ Commit(onerror([Cur EXCEPT !.socketRef = "CLOSING"]), "onerror")
    /\ UNCHANGED <<offeredNotOpen, nextMsg, mounted, manualClosed, autoRetries, appVars>>

\* the referenced socket's close event
SocketClose ==
    /\ mounted
    /\ socketRef \in {"CONNECTING", "OPEN", "CLOSING"}
    /\ Commit(onclose([Cur EXCEPT !.socketRef = "CLOSED"]), "onclose")
    /\ UNCHANGED <<offeredNotOpen, nextMsg, mounted, manualClosed, autoRetries, appVars>>

\* a socket whose handlers were detached is closed by the peer or the network
DetachedSocketCloses ==
    /\ detached > 0
    /\ Commit([Cur EXCEPT !.detached = @ - 1], "detachedClose")
    /\ UNCHANGED <<offeredNotOpen, nextMsg, mounted, manualClosed, autoRetries, appVars>>

\* the client's backoff timer fires
ReconnectTimerFires ==
    /\ mounted
    /\ reconnectTimeoutRef
    /\ Commit(reconnectTimerCallback(Cur), "reconnectTimer")
    /\ UNCHANGED <<offeredNotOpen, nextMsg, mounted, manualClosed, autoRetries, appVars>>

\* one of the wrapper's retry timers fires: the one retryTimeoutRef holds, or
\* one whose handle was overwritten
RetryTimerFires ==
    /\ mounted
    /\ \E which \in {"current", "stale"} :
          /\ which = "current" => retryTimeoutRef = "pending"
          /\ which = "stale" => staleRetryTimers > 0
          /\ LET c == IF which = "current"
                      THEN [Cur EXCEPT !.retryTimeoutRef = "fired"]
                      ELSE [Cur EXCEPT !.staleRetryTimers = @ - 1]
             IN  Commit(retryTimerCallback(c), "retryTimer")
    /\ autoRetries' = autoRetries + 1
    /\ UNCHANGED <<offeredNotOpen, nextMsg, mounted, manualClosed, appVars>>

\* the caller's close(): the wrapper's closeConnection, or the client's close
Close ==
    /\ mounted
    /\ Commit(IF wrapped THEN closeConnection(Cur) ELSE close(Cur), "close")
    /\ manualClosed' = TRUE
    /\ UNCHANGED <<offeredNotOpen, nextMsg, mounted, autoRetries, appVars>>

\* the caller's reconnect(): the wrapper's forceReconnect, or the client's reconnect
Reconnect ==
    /\ mounted
    /\ Commit(IF wrapped THEN forceReconnect(Cur) ELSE reconnect(Cur), "reconnect")
    /\ manualClosed' = FALSE
    /\ UNCHANGED <<offeredNotOpen, nextMsg, mounted, autoRetries, appVars>>

\* the caller's sendMessage(message): the wrapper's sendMessageSafely, or the
\* client's sendMessage
SendMessage ==
    /\ mounted
    /\ nextMsg <= MaxMsgs
    /\ \E sendThrows \in BOOLEAN :
          Commit(IF wrapped
                 THEN sendMessageSafely(Cur, nextMsg, sendThrows)
                 ELSE sendMessage(Cur, nextMsg, sendThrows), "sendMessage")
    /\ offeredNotOpen' = IF socketRef = "OPEN" THEN offeredNotOpen
                         ELSE offeredNotOpen \cup {nextMsg}
    /\ nextMsg' = nextMsg + 1
    /\ UNCHANGED <<mounted, manualClosed, autoRetries, appVars>>

Next ==
    \/ Mount
    \/ SocketOpen
    \/ SocketError
    \/ SocketClose
    \/ DetachedSocketCloses
    \/ ReconnectTimerFires
    \/ RetryTimerFires
    \/ Close
    \/ Reconnect
    \/ SendMessage

Spec == Init /\ [][Next]_vars

(***************************************************************************)
(* Actions of the reducer: dispatch(action) replaces the state by          *)
(* appReducer(state, action).                                              *)
(***************************************************************************)
Dispatch(a) ==
    /\ state' = appReducer(state, a, logAdded + 1)
    /\ logAdded' = IF a.type = "LOG_ENTRY_ADDED" THEN logAdded + 1 ELSE logAdded
    /\ IF a.type = "CHAT_MESSAGE_ADDED"
       THEN IF a.payload.id \in ChatIds(state.chatMessages)
            THEN /\ chatDups < MaxChatDups
                 /\ chatDups' = chatDups + 1
                 /\ UNCHANGED chatAccepted
            ELSE /\ Len(chatAccepted) < MaxChatAccepted
                 /\ chatAccepted' = Append(chatAccepted, a.payload)
                 /\ UNCHANGED chatDups
       ELSE UNCHANGED <<chatAccepted, chatDups>>
    /\ lastAction' = a.type
    /\ UNCHANGED <<streamVars, handlerVars, libVars>>

\* the highest chat message id dispatched so far: ids are introduced in the
\* order 1, 2, ..., so it is the number of distinct ids accepted
ChatSeen == Cardinality({chatAccepted[i].id : i \in 1..Len(chatAccepted)})

\* LOG_ENTRY_ADDED payloads: the message is the number of the addition
LogActions(maxAdds, ids, levels) ==
    IF logAdded < maxAdds
    THEN {[type |-> "LOG_ENTRY_ADDED",
           payload |-> [id |-> i, message |-> logAdded + 1, level |-> l]] :
             i \in ids, l \in levels}
    ELSE {}

\* CHAT_MESSAGE_ADDED payloads: the next unused id with content "a", or, with
\* content "b", an id used before: one of the first three ids (the first to
\* be evicted) or the id of the oldest or of the newest message held
ChatActions(maxIds) ==
    LET msgs == state.chatMessages
        held == IF msgs = <<>> THEN {} ELSE {msgs[1].id, msgs[Len(msgs)].id}
        used == (1..3 \cup held) \cap 1..ChatSeen
        next == IF ChatSeen < maxIds THEN {ChatSeen + 1} ELSE {}
    IN  {[type |-> "CHAT_MESSAGE_ADDED",
          payload |-> [id |-> i, role |-> "user",
                       content |-> IF i > ChatSeen THEN "a" ELSE "b"]] :
            i \in used \cup next}

WaitingActions == {[type |-> "AGENT_WAITING_SET", payload |-> b] : b \in BOOLEAN}

InitReducer == Init /\ wrapped /\ wsUrlValid

\* the log under a long run of additions, other actions interleaved
NextLog ==
    \/ \E a \in LogActions(MaxLogAdds, {0}, {"info"}) : Dispatch(a)
    \/ \E a \in ChatActions(SmallAdds) : Dispatch(a)
    \/ \E a \in WaitingActions : Dispatch(a)

SpecLog == InitReducer /\ [][NextLog]_vars

\* the chat transcript under a long run of additions, other actions interleaved
NextChat ==
    \/ \E a \in ChatActions(MaxChatIds) : Dispatch(a)
    \/ \E a \in LogActions(SmallAdds, {0, 7}, {"error"}) : Dispatch(a)
    \/ \E a \in WaitingActions : Dispatch(a)

SpecChat == InitReducer /\ [][NextChat]_vars

(***************************************************************************)
(* Actions of useAppState: a handler call dispatches its actions in order; *)
(* the reducer runs to completion for each before the next.                *)
(***************************************************************************)
RunHandlerCore(name, arg, actions) ==
    LET chats == OfType(actions, "CHAT_MESSAGE_ADDED")
        fresh == SelectSeq(chats, LAMBDA a : a.payload.id \notin ChatIds(state.chatMessages))
    IN  /\ handled < MaxHandled
        /\ handled' = handled + 1
        /\ state' = Reduce(state, actions, logAdded + 1)
        /\ logAdded' = logAdded + Len(OfType(actions, "LOG_ENTRY_ADDED"))
        /\ chatAccepted' = chatAccepted \o [i \in 1..Len(fresh) |-> fresh[i].payload]
        /\ chatDups' = chatDups + Len(chats) - Len(fresh)
        /\ lastAction' = IF Len(actions) = 0 THEN lastAction ELSE actions[Len(actions)].type
        /\ lastInput' = [handler |-> name, arg |-> arg]
        /\ dispatched' = actions
        /\ waitingBefore' = state.isWaitingForAgent

RunHandler(name, arg, actions) ==
    /\ RunHandlerCore(name, arg, actions)
    /\ UNCHANGED <<streamVars, libVars>>

\* the envelope of a stream event; the server numbers its events
Ev(type, payload, level) ==
    [js |-> "object", id |-> [t |-> "string", v |-> handled + 1], type |-> Str(type),
     createdAt |-> Str("2025-01-01T00:00:00Z"), payload |-> payload, level |-> level]

Obj == [js |-> "object"]
Arr(n, defect) == [isArray |-> TRUE, length |-> n, defect |-> defect]
Graph(n, e) == [js |-> "object", nodes |-> Arr(n, "none"), edges |-> Arr(e, "none")]

MessageEvents ==
    {Ev("agent.message", [js |-> "object", role |-> Str(r), content |-> Str("hi")],
        Undefined) : r \in {"assistant", "user", "system"}}
    \cup {Ev("agent.message", [js |-> "object", role |-> Str("assistant")], Undefined),
          Ev("agent.message", [js |-> "undefined"], Undefined)}

LogEvents ==
    {Ev("agent.log", [js |-> "object", message |-> Str("m")], l) :
        l \in {Str("error"), Str("warn"), Undefined}}

StatusEvents ==
    {Ev("scenario.status", [js |-> "object", jobId |-> Str("j1"), status |-> Str(st)],
        Undefined) : st \in {"running", "failed"}}
    \cup {Ev("scenario.status", [js |-> "object", jobId |-> Num("7"), status |-> Str("failed")],
             Undefined),
          Ev("scenario.status", [js |-> "object", jobId |-> Str("j1")], Undefined),
          Ev("scenario.status", [js |-> "object", status |-> Str("running")], Undefined),
          Ev("scenario.status", [js |-> "null"], Undefined)}

OtherEvents ==
    {Ev("agent.step", [js |-> "object", name |-> Str("run_cypher")], Undefined),
     Ev("scenario.result", [js |-> "object", jobId |-> Str("j1"), findings |-> Str("f")],
        Undefined),
     Ev("notification", [js |-> "undefined"], Undefined),
     Ev("custom.kind", [js |-> "undefined"], Str("warn"))}

ReplaceEvents ==
    {Ev("graph.replace", Graph(2, 1), Undefined),
     Ev("graph.replace", [js |-> "object", nodes |-> Arr(2, "none")], Undefined)}

HighlightEvents ==
    {Ev("graph.highlight", [js |-> "object", nodeIds |-> <<"n1", "n2">>], Undefined),
     Ev("graph.highlight", [js |-> "object"], Undefined)}

\* parsed frames that are not an event envelope
InvalidEnvelopes ==
    {[js |-> "null"], [js |-> "number"],
     [Ev("agent.log", Obj, Undefined) EXCEPT !.id = [t |-> "undefined", v |-> 0]],
     [Ev("agent.log", Obj, Undefined) EXCEPT !.id = [t |-> "number", v |-> 9]],
     [Ev("agent.log", Obj, Undefined) EXCEPT !.type = Num("7")],
     [Ev("agent.message", [js |-> "object", role |-> Str("assistant"), content |-> Str("hi")],
         Undefined) EXCEPT !.createdAt = Undefined]}

\* payloads handed over by the graph uploader
GraphLoads ==
    {Graph(n, 1) : n \in {3, WARN_NODES + 1, MAX_NODES + 1}}
    \cup {Graph(n, WARN_EDGES + 1) : n \in {3, WARN_NODES + 1, MAX_NODES + 1}}
    \cup {Graph(n, MAX_EDGES + 1) : n \in {3, MAX_NODES + 1}}
    \cup {[js |-> "null"],
          [js |-> "object", nodes |-> Arr(2, "idMissing"), edges |-> Arr(1, "none")],
          [js |-> "object", nodes |-> Arr(2, "none")]}

\* values of a result record
Entity(id) == [js |-> "object", id |-> id]
List(elems) == [js |-> "array", elems |-> elems]
Scalar == [js |-> "string"]

\* results handed over by the query bar
CypherResults ==
    {[js |-> "object", records |-> rs] :
        rs \in {<< <<Entity(Str("n1")), List(<<Entity(Str("n2")), Entity(Str("n3"))>>)>> >>,
                << <<Entity(Str("n1"))>>, <<Scalar, Entity(Str("n1")), Entity(Str("n2"))>> >>,
                << <<Scalar, Entity(Str("n2")), Entity(Str("n1"))>>, <<Entity(Str("n1"))>> >>,
                << <<Scalar, Obj, [js |-> "null"]>> >>,
                << <<List(<<List(<<Entity(Str("n4"))>>)>>)>> >>,
                << <<Entity(Num("5")), List(<<Entity(Str("5")), Scalar>>)>> >>,
                << >>}}

HandleStreamEvent(events) ==
    /\ \E e \in events : RunHandler("handleStreamEvent", e, handleStreamEvent(e))
    /\ UNCHANGED <<pendingEvent, frameDropped>>

HandleGraphLoadedEvent(payloads) ==
    /\ \E g \in payloads : RunHandler("handleGraphLoadedEvent", g, handleGraphLoadedEvent(g))
    /\ UNCHANGED <<pendingEvent, frameDropped>>

HandleCypherResultEvent ==
    /\ \E r \in CypherResults :
          RunHandler("handleCypherResultEvent", r, handleCypherResultEvent(r))
    /\ UNCHANGED <<pendingEvent, frameDropped>>

HandleStatusChange ==
    /\ \E s \in {"open", "error"} :
          RunHandler("handleStatusChange", [s |-> s], appHandleStatusChange(s))
    /\ UNCHANGED <<pendingEvent, frameDropped>>

SetWaitingForAgent ==
    /\ \E b \in BOOLEAN : RunHandler("setWaitingForAgent", [b |-> b], setWaitingForAgent(b))
    /\ UNCHANGED <<pendingEvent, frameDropped>>

\* socket.onmessage of the rich shell: JSON.parse, then the debounced
\* handleStreamEvent, which re-arms its timer with the parsed value
SocketMessage(frames) ==
    /\ mounted
    /\ socketRef = "OPEN"
    /\ \E frame \in frames :
          /\ pendingEvent' = IF frame.parsable THEN [set |-> TRUE, ev |-> frame.value]
                             ELSE pendingEvent
          /\ frameDropped' = (frameDropped \/ ~frame.parsable)
          /\ lastInput' = [handler |-> "onmessage", arg |-> frame]
    /\ dispatched' = <<>>
    /\ UNCHANGED <<streamVars, reducerVars, handled, waitingBefore, libVars>>

\* the debounce timer fires: handleStreamEvent runs with the last value
DebounceFires ==
    /\ pendingEvent.set
    /\ RunHandler("handleStreamEvent", pendingEvent.ev, handleStreamEvent(pendingEvent.ev))
    /\ pendingEvent' = [set |-> FALSE]
    /\ frameDropped' = (frameDropped \/ ~validateWebSocketMessage(pendingEvent.ev))

Frames(events) ==
    {[parsable |-> FALSE]} \cup {[parsable |-> TRUE, value |-> e] : e \in events}

\* stream events of every kind, with the panels' calls that set what they clear
NextEvents ==
    \/ HandleStreamEvent(MessageEvents)
    \/ HandleStreamEvent(LogEvents)
    \/ HandleStreamEvent(StatusEvents)
    \/ HandleStreamEvent(OtherEvents)
    \/ HandleStreamEvent(ReplaceEvents)
    \/ HandleStreamEvent(HighlightEvents)
    \/ HandleGraphLoadedEvent({Graph(3, 1)})
    \/ SetWaitingForAgent

SpecEvents == InitReducer /\ [][NextEvents]_vars

\* graph uploads and query results, with the events that set what they clear
NextGraph ==
    \/ HandleGraphLoadedEvent(GraphLoads)
    \/ HandleCypherResultEvent
    \/ HandleStreamEvent(HighlightEvents)
    \/ HandleStreamEvent({Ev("scenario.status",
                             [js |-> "object", jobId |-> Str("j1"), status |-> Str("running")],
                             Undefined)})
    \/ HandleStatusChange

SpecGraph == InitReducer /\ [][NextGraph]_vars

\* inbound frames on an open connection of the rich shell
NextFrames ==
    \/ Mount
    \/ SocketOpen
    \/ SocketMessage(Frames(InvalidEnvelopes))
    \/ SocketMessage(Frames(LogEvents \cup StatusEvents))
    \/ DebounceFires

SpecFrames == InitReducer /\ [][NextFrames]_vars

(***************************************************************************)
(* checkGraphLimits applied to payloads around its limits.                 *)
(***************************************************************************)
NodeCounts == {0, 1, WARN_NODES - 1, WARN_NODES, WARN_NODES + 1,
               MAX_NODES - 1, MAX_NODES, MAX_NODES + 1}
EdgeCounts == {0, 1, WARN_EDGES - 1, WARN_EDGES, WARN_EDGES + 1,
               MAX_EDGES - 1, MAX_EDGES, MAX_EDGES + 1}

LimitInputs ==
    {Graph(n, e) : n \in NodeCounts, e \in EdgeCounts}
    \cup {[js |-> "object", nodes |-> Arr(n, d), edges |-> Arr(e, "none")] :
             n \in {1, WARN_NODES + 1, MAX_NODES + 1}, d \in NodeDefects,
             e \in {0, MAX_EDGES + 1}}
    \cup {[js |-> "object", nodes |-> Arr(n, "none"), edges |-> Arr(e, d)] :
             n \in {0, MAX_NODES + 1}, d \in EdgeDefects,
             e \in {1, WARN_EDGES + 1, MAX_EDGES + 1}}
    \cup {[js |-> "null"], [js |-> "string"],
          [js |-> "object", nodes |-> Arr(2, "none")],
          [js |-> "object", edges |-> Arr(2, "none")],
          [js |-> "object", nodes |-> Arr(2, "none"),
           edges |-> [isArray |-> FALSE, length |-> 0, defect |-> "none"]]}

CheckGraphLimits ==
    /\ \E data \in LimitInputs :
          /\ limitsData' = data
          /\ limitsResult' = checkGraphLimits(data)
    /\ UNCHANGED <<streamVars, reducerVars, handlerVars, breakerVars, retryVars,
                 panelVars>>

SpecLimits == InitReducer /\ [][CheckGraphLimits]_vars

(***************************************************************************)
(* Properties of the stream client and the retry wrapper.                  *)
(***************************************************************************)
\* transports created by the client that are connecting or open
OpenTransports == detached + (IF socketRef \in {"CONNECTING", "OPEN"} THEN 1 ELSE 0)

\* timers of either layer that are pending
PendingTimers ==
    (IF reconnectTimeoutRef THEN 1 ELSE 0) + staleRetryTimers
        + (IF retryTimeoutRef = "pending" THEN 1 ELSE 0)

\* C1: at any time at most one transport created by the client is connecting
\* or open (it is the code's cleanupSocket that this fails on: it detaches the
\* previous socket's handlers without closing the socket).
C1_AtMostOneLiveTransport == OpenTransports <= 1

\* C2: a close() on a client whose only transport is open or connecting
\* leaves no transport connecting or open, no client retry timer pending and
\* the status closed.
C2_CloseClosesTransport ==
    [][(lastOp' = "close" /\ socketRef \in {"CONNECTING", "OPEN"} /\ detached = 0)
         => (OpenTransports' = 0 /\ ~reconnectTimeoutRef' /\ status' = "closed")]_vars

\* C3: from a manual close() until the caller's reconnect(), no handler (timer
\* or transport callback) calls connect().
C3_NoConnectAfterManualClose ==
    [][(manualClosed /\ manualClosed') => connectCalls' = 0]_vars

\* C4: with the retry wrapper, once maxRetries automatic retries have been
\* made without the status reaching open, no handler other than the caller's
\* reconnect() calls connect().
C4_NoAutomaticAttemptAfterExhaustion ==
    [][(wrapped /\ autoRetries >= maxRetries /\ lastOp' # "reconnect")
         => connectCalls' = 0]_vars

\* C5: with the retry wrapper's automatic retries exhausted (retryCount =
\* maxRetries, all of them automatic), the caller's reconnect() starts a
\* connection attempt.
C5_ManualReconnectResumes ==
    [][(wrapped /\ autoRetries = maxRetries /\ retryCountRef = maxRetries
          /\ lastOp' = "reconnect")
         => connectCalls' = 1]_vars

\* C6: a message passed to sendMessage while the connection was not open is
\* never handed to the transport, whatever happens afterwards; so every
\* message handed to the transport was passed while the connection was open.
C6_DroppedNeverSent == sent \cap offeredNotOpen = {}

\* C6 witness: a message was dropped while not open and a later message was
\* transmitted after the connection had opened.
C6_Witness == \E d \in offeredNotOpen : \E m \in sent : m > d

\* C7 as stated: the wrapper's sendMessage, called while the status is not
\* open or raising while open, with retryCount < maxRetries, sends nothing and
\* makes or schedules a reconnect attempt.
C7_SendFailureSchedulesReconnect ==
    [][(wrapped /\ lastOp' = "sendMessage" /\ retryCountRef < maxRetries
          /\ (status # "open" \/ threw'))
         => (sent' = sent /\ (connectCalls' > 0 \/ PendingTimers' > PendingTimers))]_vars

\* C7 as amended: called while the status is not open, the wrapper's
\* sendMessage sends nothing and leaves the retry count, the timers, the
\* socket and the status as they were; when the underlying send raises while
\* open and retryCount < maxRetries, nothing is sent, retryCount is
\* incremented and reconnect() is called at once.
C7_SendFailureAsCoded ==
    [][(wrapped /\ lastOp' = "sendMessage")
         => /\ status # "open"
                => /\ sent' = sent /\ connectCalls' = 0
                   /\ UNCHANGED <<status, socketRef, detached, retryCountRef,
                                  retryTimeoutRef, staleRetryTimers,
                                  reconnectTimeoutRef, attemptsRef>>
            /\ (threw' /\ retryCountRef < maxRetries)
                => /\ sent' = sent /\ connectCalls' = 1
                   /\ retryCountRef' = retryCountRef + 1]_vars

\* C7 witness: the wrapper dropped a first message while not open, and the
\* send of a second raised while open and made the wrapper reconnect.
C7_Witness ==
    /\ wrapped /\ lastOp = "sendMessage" /\ threw /\ connectCalls = 1
    /\ offeredNotOpen # {} /\ sent = {}

(***************************************************************************)
(* Properties of the reducer.                                              *)
(***************************************************************************)
\* C8: after n LOG_ENTRY_ADDED actions among any other actions, logEntries
\* holds min(n, 80) entries, the most recently added ones, newest first.
C8_LogCap ==
    /\ Len(state.logEntries) = Min(logAdded, 80)
    /\ \A i \in 1..Len(state.logEntries) :
          state.logEntries[i].message = logAdded - i + 1

\* C8 witness: 200 additions made, 80 entries kept.
C8_Witness == logAdded = 200 /\ Len(state.logEntries) = 80

\* C9: the ids in chatMessages are pairwise distinct in every state, and a
\* CHAT_MESSAGE_ADDED whose id already occurs in chatMessages leaves the
\* state as it was.
C9_ChatDedup ==
    /\ [](\A i, j \in 1..Len(state.chatMessages) :
             state.chatMessages[i].id = state.chatMessages[j].id => i = j)
    /\ [][chatDups' > chatDups => state' = state]_vars

\* C9 witness: one message dispatched twice (the second time with another
\* content), held once.
C9_Witness ==
    /\ chatDups = 1 /\ Len(chatAccepted) = 1 /\ Len(state.chatMessages) = 1
    /\ lastAction = "CHAT_MESSAGE_ADDED"

\* C10: chatMessages holds at most 120 messages, and they are the most
\* recently accepted ones in arrival order, oldest first.
C10_ChatCap ==
    LET n == Len(state.chatMessages)
        k == Len(chatAccepted)
    IN  /\ n = Min(k, 120)
        /\ \A i \in 1..n : state.chatMessages[i] = chatAccepted[k - n + i]

\* C10 witness: more than 120 messages accepted, the oldest evicted, and one
\* evicted id accepted again later.
C10_Witness ==
    /\ Len(chatAccepted) > 120
    /\ state.chatMessages[1] # chatAccepted[1]
    /\ \E i \in 1..Len(state.chatMessages) :
          state.chatMessages[i].id = chatAccepted[1].id

(***************************************************************************)
(* CircuitBreaker.  execute() tests the state when it is called and awaits *)
(* operation(); onSuccess or onFailure runs when the operation settles, so *)
(* calls made meanwhile overlap it.  The clock advances between steps.     *)
(***************************************************************************)
CurBreaker ==
    [state |-> cbState, failures |-> cbFailures, lastFailureTime |-> cbLastFailureTime]

SetBreaker(b) ==
    /\ cbState' = b.state
    /\ cbFailures' = b.failures
    /\ cbLastFailureTime' = b.lastFailureTime

\* a call of execute(operation), up to the await
CbExecute ==
    /\ LET r == executeEntry(CurBreaker, now)
       IN  /\ r.invoke => cbInFlight < MaxInFlight
           /\ SetBreaker(r.b)
           /\ cbInFlight' = IF r.invoke THEN cbInFlight + 1 ELSE cbInFlight
           /\ cbLast' = IF r.invoke
                        THEN [op |-> IF cbState = "OPEN" THEN "probe" ELSE "invoked"]
                        ELSE [op |-> "rejected", error |-> r.error]
    /\ cbBefore' = cbState
    /\ UNCHANGED <<now, cbTicks, cbSinceSuccess>>
    /\ UNCHANGED <<streamVars, reducerVars, handlerVars, limitsVars, retryVars,
                 panelVars>>

\* an awaited operation resolves
CbOperationSucceeds ==
    /\ cbInFlight > 0
    /\ SetBreaker(onSuccess(CurBreaker))
    /\ cbInFlight' = cbInFlight - 1
    /\ cbLast' = [op |-> "success"]
    /\ cbBefore' = cbState
    /\ cbSinceSuccess' = 0
    /\ UNCHANGED <<now, cbTicks>>
    /\ UNCHANGED <<streamVars, reducerVars, handlerVars, limitsVars, retryVars,
                 panelVars>>

\* an awaited operation rejects
CbOperationFails ==
    /\ cbInFlight > 0
    /\ cbFailures < MaxFailures
    /\ SetBreaker(onFailure(CurBreaker, now))
    /\ cbInFlight' = cbInFlight - 1
    /\ cbLast' = [op |-> "failure"]
    /\ cbBefore' = cbState
    /\ cbSinceSuccess' = cbSinceSuccess + 1
    /\ UNCHANGED <<now, cbTicks>>
    /\ UNCHANGED <<streamVars, reducerVars, handlerVars, limitsVars, retryVars,
                 panelVars>>

\* time passes: a millisecond, all but a millisecond of the timeout, or the timeout
CbTick ==
    /\ cbTicks < MaxTicks
    /\ \E d \in {1, timeout - 1, timeout} : now' = now + d
    /\ cbTicks' = cbTicks + 1
    /\ cbLast' = [op |-> "tick"]
    /\ UNCHANGED <<cbState, cbFailures, cbLastFailureTime, cbInFlight, cbBefore,
                   cbSinceSuccess>>
    /\ UNCHANGED <<streamVars, reducerVars, handlerVars, limitsVars, retryVars,
                 panelVars>>

NextBreaker ==
    \/ CbExecute
    \/ CbOperationSucceeds
    \/ CbOperationFails
    \/ CbTick

SpecBreaker == InitReducer /\ [][NextBreaker]_vars

(***************************************************************************)
(* createRetryHandler(maxRetries, baseDelay)(operation): the loop          *)
(*   for (attempt = 0; attempt <= maxRetries; attempt++)                   *)
(* with its two awaits, of operation() and of the backoff delay.  The      *)
(* error raised by the k-th call of operation() is numbered k.             *)
(***************************************************************************)
RhCall ==
    /\ rhPc = "idle"
    /\ \E m \in 0..MaxRetriesArg : rhMaxRetries' = m
    /\ rhPc' = "invoking"
    /\ rhAttempt' = 0
    /\ UNCHANGED <<rhInvocations, rhWaits, rhLastError, rhOutcome>>
    /\ UNCHANGED <<streamVars, reducerVars, handlerVars, limitsVars, breakerVars,
                 panelVars>>

\* operation() resolves: return await operation()
RhOperationResolves ==
    /\ rhPc = "invoking"
    /\ rhInvocations' = rhInvocations + 1
    /\ rhPc' = "returned"
    /\ rhOutcome' = [kind |-> "value", invocation |-> rhInvocations + 1]
    /\ UNCHANGED <<rhMaxRetries, rhAttempt, rhWaits, rhLastError>>
    /\ UNCHANGED <<streamVars, reducerVars, handlerVars, limitsVars, breakerVars,
                 panelVars>>

\* operation() rejects: the catch block raises after the last attempt and
\* starts the backoff delay otherwise
RhOperationRejects ==
    /\ rhPc = "invoking"
    /\ rhInvocations' = rhInvocations + 1
    /\ rhLastError' = rhInvocations + 1
    /\ IF rhAttempt = rhMaxRetries
       THEN /\ rhPc' = "thrown"
            /\ rhOutcome' = maxRetriesExceeded(rhInvocations + 1, rhAttempt)
            /\ UNCHANGED rhWaits
       ELSE /\ rhPc' = "waiting"
            /\ rhWaits' = rhWaits + 1
            /\ UNCHANGED rhOutcome
    /\ UNCHANGED <<rhMaxRetries, rhAttempt>>
    /\ UNCHANGED <<streamVars, reducerVars, handlerVars, limitsVars, breakerVars,
                 panelVars>>

\* the backoff delay is over: attempt++ and the next turn of the loop
RhDelayElapses ==
    /\ rhPc = "waiting"
    /\ rhAttempt' = rhAttempt + 1
    /\ rhPc' = "invoking"
    /\ UNCHANGED <<rhMaxRetries, rhInvocations, rhWaits, rhLastError, rhOutcome>>
    /\ UNCHANGED <<streamVars, reducerVars, handlerVars, limitsVars, breakerVars,
                 panelVars>>

NextRetry ==
    \/ RhCall
    \/ RhOperationResolves
    \/ RhOperationRejects
    \/ RhDelayElapses

SpecRetry == InitReducer /\ [][NextRetry]_vars

\* every call of operation() settles and every delay ends
SpecRetryFair ==
    /\ SpecRetry
    /\ WF_vars(RhOperationResolves \/ RhOperationRejects)
    /\ WF_vars(RhDelayElapses)

\* the retry helper and the circuit breaker side by side
NextRecovery == NextBreaker \/ NextRetry

SpecRecovery == InitReducer /\ [][NextRecovery]_vars

(***************************************************************************)
(* Properties of the useAppState handlers and of the reducer under them.   *)
(***************************************************************************)
GraphActionTypes == {"GRAPH_LOADED", "GRAPH_REPLACED"}

\* the message of the i-th newest log entry starts with the given words
LogStarts(i, words) ==
    /\ i <= Len(state.logEntries)
    /\ state.logEntries[i].message[1] = words

\* C11: in every reachable state, reducing GRAPH_LOADED or GRAPH_REPLACED with
\* payload P gives a state with graphData = P, no highlighted nodes, no
\* scenario status and no scenario results; and every handler call that
\* dispatches such an action ends in a state with exactly that.
C11_GraphReset ==
    /\ [](\A type \in GraphActionTypes : \A P \in {Graph(2, 1), Graph(3, 1)} :
            LET after == appReducer(state, [type |-> type, payload |-> P], logAdded + 1)
            IN  /\ after.graphData = P
                /\ after.highlightedNodes = <<>>
                /\ after.scenarioStatus = Null
                /\ after.scenarioResults = Null)
    /\ [][\A i \in 1..Len(dispatched') :
            (handled' = handled + 1 /\ dispatched'[i].type \in GraphActionTypes)
            => /\ state'.graphData = dispatched'[i].payload
               /\ state'.highlightedNodes = <<>>
               /\ state'.scenarioStatus = Null
               /\ state'.scenarioResults = Null]_vars

\* a graph.replace event has just replaced the graph, after nodes had been
\* highlighted and a scenario status had been set
C11_Witness ==
    /\ LogStarts(1, "Graph snapshot replaced from agent stream")
    /\ \E i \in 2..3 : LogStarts(i, "Highlighting")
    /\ \E i \in 2..3 : LogStarts(i, "Scenario")
    /\ state.graphData = Graph(2, 1)
    /\ state.highlightedNodes = <<>>

\* the last handler call was handleStreamEvent with an event of the given kind
LastEventIs(kind) ==
    /\ lastInput.handler = "handleStreamEvent"
    /\ validateWebSocketMessage(lastInput.arg)
    /\ lastInput.arg.type.v = kind

\* C12: a scenario.status event whose payload has a string jobId and a string
\* status makes processEvent dispatch exactly one SCENARIO_STATUS_UPDATED with
\* that jobId and status and exactly one LOG_ENTRY_ADDED, of level error if
\* the status is failed and info otherwise, whose message names the jobId and
\* the status, and nothing else; with jobId or status missing or not a
\* string, nothing is dispatched.
C12_ScenarioStatusDispatch ==
    LastEventIs("scenario.status") =>
        LET p == lastInput.arg.payload
            updates == OfType(dispatched, "SCENARIO_STATUS_UPDATED")
            logs == OfType(dispatched, "LOG_ENTRY_ADDED")
        IN  IF typeof(Get(p, "jobId")) = "string" /\ typeof(Get(p, "status")) = "string"
            THEN /\ Len(dispatched) = 2
                 /\ Len(updates) = 1
                 /\ updates[1].payload.jobId = p.jobId.v
                 /\ updates[1].payload.status = p.status.v
                 /\ Len(logs) = 1
                 /\ logs[1].payload.level = (IF p.status.v = "failed" THEN "error" ELSE "info")
                 /\ \E i \in 1..Len(logs[1].payload.message) :
                       logs[1].payload.message[i] = p.jobId.v
                 /\ \E i \in 1..Len(logs[1].payload.message) :
                       logs[1].payload.message[i] = p.status.v
            ELSE Len(dispatched) = 0

\* a scenario.status event reporting job j1 as failed has been processed
C12_Witness ==
    /\ LastEventIs("scenario.status")
    /\ Get(lastInput.arg.payload, "jobId") = Str("j1")
    /\ Get(lastInput.arg.payload, "status") = Str("failed")
    /\ Len(dispatched) = 2
    /\ state.scenarioStatus # Null
    /\ state.logEntries[1].level = "error"

\* the last event was an agent.message with role assistant
LastAssistantMessage ==
    /\ LastEventIs("agent.message")
    /\ Get(lastInput.arg.payload, "role") = Str("assistant")

\* the last event was an agent.message whose content is a string
LastMessageHasContent ==
    /\ LastEventIs("agent.message")
    /\ typeof(Get(lastInput.arg.payload, "content")) = "string"

\* the last event was an agent.log of level error
LastErrorLog ==
    /\ LastEventIs("agent.log")
    /\ lastInput.arg.level = Str("error")

\* agent.message events of the other roles and agent.log events of the other
\* levels leave isWaitingForAgent as it was
OtherEventsKeepWaiting ==
    /\ (LastEventIs("agent.message") /\ ~LastAssistantMessage)
          => state.isWaitingForAgent = waitingBefore
    /\ (LastEventIs("agent.log") /\ ~LastErrorLog)
          => state.isWaitingForAgent = waitingBefore

\* C13 as stated: after an agent.message event with role assistant, or an
\* agent.log event with level error, has been processed, isWaitingForAgent is
\* false; agent.message events with role user or system and agent.log events
\* of any other level leave it unchanged.
C13_AssistantClearsWaiting ==
    /\ LastAssistantMessage => ~state.isWaitingForAgent
    /\ LastErrorLog => ~state.isWaitingForAgent
    /\ OtherEventsKeepWaiting

\* C13 amended: after an agent.message event with role assistant and a string
\* content, or an agent.log event with level error, has been processed,
\* isWaitingForAgent is false; an agent.message event without a string
\* content, or with role user or system, and an agent.log event of any other
\* level leave it unchanged.
C13_AssistantWithContentClearsWaiting ==
    /\ (LastAssistantMessage /\ LastMessageHasContent) => ~state.isWaitingForAgent
    /\ (LastEventIs("agent.message") /\ ~LastMessageHasContent)
          => state.isWaitingForAgent = waitingBefore
    /\ LastErrorLog => ~state.isWaitingForAgent
    /\ OtherEventsKeepWaiting

\* an assistant message with content has ended a wait
C13_Witness ==
    /\ LastAssistantMessage
    /\ LastMessageHasContent
    /\ waitingBefore
    /\ ~state.isWaitingForAgent

\* the ids of the entity-shaped values in a record value, descending into
\* arrays at any depth
RECURSIVE EntityIdsIn(_)
EntityIdsIn(value) ==
    IF value.js = "array"
    THEN UNION {EntityIdsIn(value.elems[i]) : i \in 1..Len(value.elems)}
    ELSE IF value.js = "object" /\ "id" \in DOMAIN value THEN {String(value.id)} ELSE {}

EntityIds(result) ==
    UNION {UNION {EntityIdsIn(result.records[r][k]) : k \in 1..Len(result.records[r])} :
             r \in 1..Len(result.records)}

\* C14: after handleCypherResult has processed a result, highlightedNodes
\* holds exactly the ids of the entity-shaped values of the result's records,
\* found directly or inside arrays, each id once.
C14_HighlightsAreResultIds ==
    lastInput.handler = "handleCypherResultEvent" =>
        /\ Range(state.highlightedNodes) = EntityIds(lastInput.arg)
        /\ Len(state.highlightedNodes) = Cardinality(Range(state.highlightedNodes))

\* C14, case of a result without entities processed while nodes are
\* highlighted: highlightedNodes is empty afterwards.
C14_EmptyResultClearsHighlights ==
    (lastInput.handler = "handleCypherResultEvent" /\ EntityIds(lastInput.arg) = {})
        => state.highlightedNodes = <<>>

\* the frame socket.onmessage received last cannot become an event
LastFrameInvalid ==
    /\ lastInput.handler = "onmessage"
    /\ ~lastInput.arg.parsable \/ ~validateWebSocketMessage(lastInput.arg.value)

\* C15: a frame that is not parsable JSON, or that parses to a value without
\* a string id, type or createdAt, causes no reducer action and no change of
\* the connection state, neither when it arrives nor when the debounced
\* handler runs with it; and a valid agent.log frame held by the debounce
\* timer is processed when the timer fires, whatever was dropped before.
C15_InvalidFrameDropped ==
    [][/\ (handled' = handled /\ LastFrameInvalid')
          => /\ state' = state
             /\ UNCHANGED <<status, socketRef, reconnectTimeoutRef, retryTimeoutRef>>
             /\ (~lastInput'.arg.parsable => pendingEvent' = pendingEvent)
       /\ (handled' = handled + 1 /\ ~validateWebSocketMessage(pendingEvent.ev))
          => /\ state' = state
             /\ Len(dispatched') = 0
             /\ UNCHANGED <<status, socketRef, reconnectTimeoutRef, retryTimeoutRef>>
       /\ (handled' = handled + 1 /\ validateWebSocketMessage(pendingEvent.ev)
           /\ pendingEvent.ev.type.v = "agent.log")
          => /\ Len(state'.logEntries) = Len(state.logEntries) + 1
             /\ state'.logEntries[1].id = pendingEvent.ev.id.v]_vars

\* a valid agent.log frame has been processed after a frame was dropped
C15_Witness ==
    /\ frameDropped
    /\ LastEventIs("agent.log")
    /\ Len(state.logEntries) = 1
    /\ state.logEntries[1].id = lastInput.arg.id.v
    /\ status = "open"

\* C17: handleGraphLoadedEvent called with a payload of invalid shape or over
\* a MAX limit leaves graphData, highlightedNodes, scenarioStatus and
\* scenarioResults unchanged and adds exactly one log entry, of level error;
\* called with a payload over WARN limits only, it sets graphData to the
\* payload and adds one warn-level entry for each soft limit exceeded.
C17_GraphLoadGuard ==
    [][(handled' = handled + 1 /\ lastInput'.handler = "handleGraphLoadedEvent")
       => LET g == lastInput'.arg
              n == g.nodes.length
              e == g.edges.length
              warns == SelectSeq(OfType(dispatched', "LOG_ENTRY_ADDED"),
                                 LAMBDA a : a.payload.level = "warn")
              added == Len(state'.logEntries) - Len(state.logEntries)
          IN  IF ~validateGraphData(g) \/ n > 10000 \/ e > 50000
              THEN /\ state'.graphData = state.graphData
                   /\ state'.highlightedNodes = state.highlightedNodes
                   /\ state'.scenarioStatus = state.scenarioStatus
                   /\ state'.scenarioResults = state.scenarioResults
                   /\ Len(dispatched') = 1
                   /\ dispatched'[1].type = "LOG_ENTRY_ADDED"
                   /\ dispatched'[1].payload.level = "error"
                   /\ added = 1
                   /\ state'.logEntries[1].level = "error"
              ELSE /\ state'.graphData = g
                   /\ Len(warns) = (IF n > 1000 THEN 1 ELSE 0) + (IF e > 5000 THEN 1 ELSE 0)
                   /\ added = Len(warns) + 1
                   /\ \A i \in 2..added : state'.logEntries[i].level = "warn"]_vars

\* a graph over both soft limits has been loaded with its two warnings
C17_Witness ==
    /\ lastInput.handler = "handleGraphLoadedEvent"
    /\ state.graphData = Graph(1001, 5001)
    /\ Len(state.logEntries) >= 3
    /\ state.logEntries[2].level = "warn"
    /\ state.logEntries[3].level = "warn"
    /\ LogStarts(1, "Loaded graph with")

(***************************************************************************)
(* Properties of lib/error-recovery.                                       *)
(***************************************************************************)
HasMessage(messages, words) == \E i \in 1..Len(messages) : messages[i][1] = words

\* C16: for a payload of valid shape, checkGraphLimits gives valid = false,
\* with an error, exactly when there are more than 10000 nodes or more than
\* 50000 edges; it warns about the nodes exactly when 1000 < nodes <= 10000
\* and about the edges exactly when 5000 < edges <= 50000, each judged alone;
\* 10001 nodes are rejected, 1001 nodes accepted with a warning, 999 nodes
\* give neither.  A payload of invalid shape gives valid = false.
C16_GraphLimits ==
    IF validateGraphData(limitsData)
    THEN LET n == limitsData.nodes.length
             e == limitsData.edges.length
         IN  /\ ~limitsResult.valid <=> (n > 10000 \/ e > 50000)
             /\ ~limitsResult.valid <=> Len(limitsResult.errors) > 0
             /\ HasMessage(limitsResult.errors, "Too many nodes") <=> n > 10000
             /\ HasMessage(limitsResult.errors, "Too many edges") <=> e > 50000
             /\ HasMessage(limitsResult.warnings, "Large graph nodes")
                   <=> (1000 < n /\ n <= 10000)
             /\ HasMessage(limitsResult.warnings, "Large graph edges")
                   <=> (5000 < e /\ e <= 50000)
             /\ Len(limitsResult.warnings) + Len(limitsResult.errors)
                   = (IF n > 1000 THEN 1 ELSE 0) + (IF e > 5000 THEN 1 ELSE 0)
             /\ (n = 10001 => ~limitsResult.valid)
             /\ (n = 1001 /\ e <= 5000) => (limitsResult.valid /\ Len(limitsResult.warnings) = 1)
             /\ (n = 999 /\ e <= 5000)
                   => (limitsResult.valid /\ Len(limitsResult.warnings) = 0)
    ELSE ~limitsResult.valid

\* 1001 nodes and 50001 edges: a warning for the nodes, an error for the edges
C16_Witness ==
    /\ validateGraphData(limitsData)
    /\ limitsData.nodes.length = 1001
    /\ limitsData.edges.length = 50001
    /\ ~limitsResult.valid
    /\ Len(limitsResult.warnings) = 1
    /\ Len(limitsResult.errors) = 1

\* the step is a call of execute()
CallKinds == {"rejected", "probe", "invoked"}

C19_CeilingErrorsNotRecoverable ==
    /\ rhPc = "thrown"
          => (rhOutcome.code = "MAX_RETRIES_EXCEEDED" /\ ~rhOutcome.recoverable)
    /\ cbLast.op = "rejected"
          => (cbLast.error.code = "CIRCUIT_BREAKER_OPEN" /\ ~cbLast.error.recoverable)

\* C19, the half about the retry helper alone
C19_RetryErrorNotRecoverable ==
    rhPc = "thrown" => (rhOutcome.code = "MAX_RETRIES_EXCEEDED" /\ ~rhOutcome.recoverable)

\* C20: the retry helper calls the operation at most maxRetries + 1 times;
\* it returns the first result and calls nothing further; if every call
\* fails it raises MAX_RETRIES_EXCEEDED with attempts = maxRetries + 1 and the
\* error of the last call; it has waited once after every failed call but
\* the last; and a started run ends by returning or raising.
C20_RetryHelper ==
    /\ [](/\ rhInvocations <= rhMaxRetries + 1
          /\ rhPc = "returned"
                => /\ rhOutcome.invocation = rhInvocations
                   /\ rhLastError = rhInvocations - 1
                   /\ rhWaits = rhInvocations - 1
          /\ rhPc = "thrown"
                => /\ rhInvocations = rhMaxRetries + 1
                   /\ rhOutcome.code = "MAX_RETRIES_EXCEEDED"
                   /\ rhOutcome.attempts = rhMaxRetries + 1
                   /\ rhOutcome.originalError = rhInvocations
                   /\ rhWaits = rhMaxRetries
          /\ rhPc = "waiting" => rhWaits = rhInvocations
          /\ rhPc = "invoking" => rhWaits = rhInvocations)
    /\ [][(rhPc = "returned" \/ rhPc = "thrown") => retryVars' = retryVars]_vars
    /\ (rhPc = "invoking" ~> rhPc \in {"returned", "thrown"})

\* every call failed with maxRetries = 3: four calls, three waits, the error raised
C20_Witness ==
    /\ rhPc = "thrown"
    /\ rhMaxRetries = 3
    /\ rhInvocations = 4
    /\ rhWaits = 3
    /\ rhOutcome.attempts = 4

(***************************************************************************)
(* GraphUploader (rich shell).  The text of a file or of the sample asset  *)
(* is [wellFormed, value]: JSON.parse raises on text that is not JSON and  *)
(* yields the value it denotes otherwise.  An upload is a task: the call   *)
(* of handleFileChange, loadSampleGraph or handleDrop, resumed after each  *)
(* of its awaits.  A status message is the tuple of the parts its template *)
(* literal joins.                                                          *)
(***************************************************************************)
JSONparse(text) ==
    IF text.wellFormed THEN [threw |-> FALSE, value |-> text.value]
    ELSE [threw |-> TRUE, message |-> "Unexpected token"]

\* !!payload[f] for a parsed value that is not null
HasTruthy(payload, f) == LET x == Get(payload, f) IN IsArray(x) \/ Truthy(x)

\* parseGraph up to its await: the statuses set, the message left and
\* whether onGraphLoaded and hydrateBackend are called with the payload
parseGraph(text) ==
    LET parsed == JSONparse(text)
        failed(message) ==
            [sets |-> <<"uploading", "error">>,
             message |-> <<"Failed to parse graph:", message>>, committed |-> FALSE]
    IN  IF parsed.threw THEN failed(parsed.message)
        ELSE IF parsed.value.js = "null" THEN failed("Cannot read properties of null")
        ELSE IF ~HasTruthy(parsed.value, "nodes") \/ ~HasTruthy(parsed.value, "edges")
        THEN failed("Missing nodes or edges array in graph data")
        ELSE [sets |-> <<"uploading">>,
              message |-> <<"Graph loaded, syncing to backend...">>, committed |-> TRUE]

hydrateBackendResolved(payload) ==
    [status |-> "success",
     stats |-> [nodes |-> payload.nodes.length, edges |-> payload.edges.length],
     message |-> <<"Successfully synced graph", payload.nodes.length, payload.edges.length>>]

\* the catch of hydrateBackend reporting with the message of parseGraph's catch
hydrateBackendRejectedAsParse(errorMessage) ==
    [status |-> "error", message |-> <<"Failed to parse graph:", errorMessage>>]

hydrateBackendRejected(errorMessage) ==
    [status |-> "error", message |-> <<"Failed to sync backend:", errorMessage>>]

\* texts a file or the sample asset can hold
UploadTexts ==
    {[wellFormed |-> FALSE]}
    \cup {[wellFormed |-> TRUE, value |-> v] :
             v \in {[js |-> "null"], [js |-> "object", nodes |-> Arr(2, "none")],
                    Graph(3, 1), Graph(MAX_NODES + 1, 1)}}

\* what loadGraph's rejection says
SyncErrors == {"Network error: Failed to fetch", "Request failed (500)"}

uploaderFrame ==
    <<streamVars, limitsVars, breakerVars, retryVars, chatPanelVars, debounceVars,
      shellVars, inputVars, listVars, simVars,
      pureVars>>

UpStep(op, task, sets, message) ==
    /\ upPrev' = upStatus
    /\ upSets' = sets
    /\ upStatus' = IF Len(sets) = 0 THEN upStatus ELSE sets[Len(sets)]
    /\ upStatusMessage' = message
    /\ upLast' = [op |-> op, task |-> task]

\* the file input's onChange; the input is disabled while status is uploading
HandleFileChange ==
    /\ upStatus # "uploading"
    /\ Len(upTasks) < MaxUploads
    /\ \E text \in UploadTexts :
          upTasks' = Append(upTasks, [src |-> "picker", pc |-> "reading", text |-> text])
    /\ UpStep("handleFileChange", Len(upTasks) + 1, <<>>, upStatusMessage)
    /\ UNCHANGED <<upGraphStats, upCalls, reducerVars, handlerVars, uploaderFrame>>

\* the drop zone's onDrop; the zone is never disabled
HandleDrop ==
    /\ Len(upTasks) < MaxUploads
    /\ \/ /\ upTasks' = Append(upTasks, [src |-> "drop", pc |-> "rejected"])
          /\ UpStep("handleDrop", Len(upTasks) + 1, <<"error">>,
                    <<"Please upload a JSON file">>)
       \/ /\ \E text \in UploadTexts :
                upTasks' = Append(upTasks, [src |-> "drop", pc |-> "reading", text |-> text])
          /\ UpStep("handleDrop", Len(upTasks) + 1, <<>>, upStatusMessage)
    /\ UNCHANGED <<upGraphStats, upCalls, reducerVars, handlerVars, uploaderFrame>>

\* the Load Sample button's onClick; disabled while status is uploading
LoadSampleGraph ==
    /\ upStatus # "uploading"
    /\ Len(upTasks) < MaxUploads
    /\ upTasks' = Append(upTasks, [src |-> "sample", pc |-> "fetching"])
    /\ UpStep("loadSampleGraph", Len(upTasks) + 1, <<"uploading">>,
              <<"Loading sample graph...">>)
    /\ UNCHANGED <<upGraphStats, upCalls, reducerVars, handlerVars, uploaderFrame>>

\* parseGraph(text) called by task i, up to the await of loadGraph
RunParseGraph(i, text) ==
    LET r == parseGraph(text)
    IN  /\ UpStep("parseGraph", i, r.sets, r.message)
        /\ IF r.committed
           THEN /\ RunHandlerCore("handleGraphLoadedEvent", text.value,
                                  handleGraphLoadedEvent(text.value))
                /\ upCalls' = upCalls \o <<[task |-> i, call |-> "onGraphLoaded"],
                                           [task |-> i, call |-> "loadGraph"]>>
                /\ upTasks' = [upTasks EXCEPT ![i] = [src |-> upTasks[i].src,
                                                      pc |-> "syncing", text |-> text]]
                /\ UNCHANGED <<pendingEvent, frameDropped>>
           ELSE /\ upTasks' = [upTasks EXCEPT ![i] = [src |-> upTasks[i].src,
                                                      pc |-> "failed", text |-> text]]
                /\ UNCHANGED <<upCalls, reducerVars, handlerVars>>
        /\ UNCHANGED <<upGraphStats, uploaderFrame>>

\* file.text() resolves
FileRead ==
    \E i \in 1..Len(upTasks) :
        /\ upTasks[i].pc = "reading"
        /\ RunParseGraph(i, upTasks[i].text)

\* fetch("/sample-graph.json") and response.text() resolve
SampleFetched ==
    \E i \in 1..Len(upTasks) :
        /\ upTasks[i].pc = "fetching"
        /\ \E text \in UploadTexts : RunParseGraph(i, text)

\* fetch("/sample-graph.json") rejects
SampleFetchFails ==
    \E i \in 1..Len(upTasks) :
        /\ upTasks[i].pc = "fetching"
        /\ upTasks' = [upTasks EXCEPT ![i].pc = "failed"]
        /\ UpStep("loadSampleGraph catch", i, <<"error">>, <<"Unable to load sample graph">>)
        /\ UNCHANGED <<upGraphStats, upCalls, reducerVars, handlerVars, uploaderFrame>>

\* loadGraph resolves inside hydrateBackend
SyncResolves ==
    \E i \in 1..Len(upTasks) :
        /\ upTasks[i].pc = "syncing"
        /\ LET r == hydrateBackendResolved(upTasks[i].text.value)
           IN  /\ UpStep("hydrateBackend", i, <<r.status>>, r.message)
               /\ upGraphStats' = r.stats
        /\ upTasks' = [upTasks EXCEPT ![i].pc = "synced"]
        /\ UNCHANGED <<upCalls, reducerVars, handlerVars, uploaderFrame>>

\* loadGraph rejects inside hydrateBackend
SyncRejects ==
    \E i \in 1..Len(upTasks) :
        /\ upTasks[i].pc = "syncing"
        /\ \E e \in SyncErrors :
              LET r == hydrateBackendRejected(e)
              IN  UpStep("hydrateBackend catch", i, <<r.status>>, r.message)
        /\ upTasks' = [upTasks EXCEPT ![i].pc = "syncFailed"]
        /\ UNCHANGED <<upGraphStats, upCalls, reducerVars, handlerVars, uploaderFrame>>

NextUploader ==
    \/ HandleFileChange
    \/ HandleDrop
    \/ LoadSampleGraph
    \/ FileRead
    \/ SampleFetched
    \/ SampleFetchFails
    \/ SyncResolves
    \/ SyncRejects

SpecUploader == InitReducer /\ [][NextUploader]_vars

(***************************************************************************)
(* Properties of the graph uploader.                                       *)
(***************************************************************************)
CallsOf(i, call) == {j \in 1..Len(upCalls) : upCalls[j] = [task |-> i, call |-> call]}

\* task i has run parseGraph on the text of a graph with nodes and edges
ParsedGraphJson(i) ==
    /\ upTasks[i].pc \in {"syncing", "synced", "syncFailed", "failed"}
    /\ "text" \in DOMAIN upTasks[i]
    /\ upTasks[i].text.wellFormed
    /\ upTasks[i].text.value.js = "object"
    /\ IsArray(Get(upTasks[i].text.value, "nodes"))
    /\ IsArray(Get(upTasks[i].text.value, "edges"))

\* the payload of the last onGraphLoaded call that passed the size guard
LastCommitted ==
    LET ok == {j \in 1..Len(upCalls) :
                  /\ upCalls[j].call = "onGraphLoaded"
                  /\ checkGraphLimits(upTasks[upCalls[j].task].text.value).valid}
    IN  IF ok = {} THEN Null
        ELSE upTasks[upCalls[CHOOSE j \in ok : \A k \in ok : k <= j].task].text.value

SyncFailsNow(i) == upTasks[i].pc = "syncing" /\ upTasks'[i].pc = "syncFailed"

\* C21: for a parseable graph JSON with nodes and edges the uploader calls
\* onGraphLoaded once and then loadGraph once; the graph the callback set
\* stays in the state whatever the sync does; and the step in which loadGraph
\* fails leaves the application state as it is, sets the status error and
\* leaves the sync-failure message, which is not the parse-failure message.
C21_TwoPhaseCommit ==
    /\ [](\A i \in 1..Len(upTasks) :
             ParsedGraphJson(i) =>
                 /\ Cardinality(CallsOf(i, "onGraphLoaded")) = 1
                 /\ Cardinality(CallsOf(i, "loadGraph")) = 1
                 /\ \A j \in CallsOf(i, "onGraphLoaded") :
                       \A k \in CallsOf(i, "loadGraph") : j < k)
    /\ [](state.graphData = LastCommitted)
    /\ [][\A i \in 1..Len(upTasks) :
             SyncFailsNow(i) =>
                 /\ state' = state
                 /\ upStatus' = "error"
                 /\ upStatusMessage'[1] = "Failed to sync backend:"
                 /\ upStatusMessage'[1] # parseGraph([wellFormed |-> FALSE]).message[1]]_vars

\* loadGraph failed for a graph that the callback had put into the state
C21_Witness ==
    \E i \in 1..Len(upTasks) :
        /\ upTasks[i].pc = "syncFailed"
        /\ upLast = [op |-> "hydrateBackend catch", task |-> i]
        /\ upStatus = "error"
        /\ state.graphData = upTasks[i].text.value

\* C22: every value passed to setStatus that enters success or error
\* replaces the status uploading.
C22_StatusSequence ==
    \A k \in 1..Len(upSets) :
        LET before == IF k = 1 THEN upPrev ELSE upSets[k - 1]
        IN  (upSets[k] \in {"success", "error"} /\ upSets[k] # before)
                => before = "uploading"

\* the same while no file was rejected for not being named *.json
C22_SequenceExceptRejectedDrop ==
    (\E i \in 1..Len(upTasks) : upTasks[i].pc = "rejected") \/ C22_StatusSequence

(***************************************************************************)
(* ChatPanel (rich shell), given connectionState = the wrapper's status,   *)
(* disabled = (status # "open") and isWaitingForAgent from the reducer,    *)
(* with onSend = App.handleSendChat.  A submit attempt yields whether      *)
(* onSend is called, with what, and the draft left.                        *)
(***************************************************************************)
Drafts == {"", "  ", "hi", " hi "}

\* String.prototype.trim on the drafts of the model
trim(text) == IF text = "  " THEN "" ELSE IF text = " hi " THEN "hi" ELSE text

handleSubmit(draft, disabled, connectionState) ==
    LET value == trim(draft)
    IN  IF value = "" \/ disabled \/ connectionState # "open"
        THEN [send |-> FALSE, value |-> value, draft |-> draft]
        ELSE [send |-> TRUE, value |-> value, draft |-> ""]

\* handleKeyDown for the Enter key without Shift
handleKeyDown(draft, disabled, connectionState) ==
    IF trim(draft) # "" /\ ~disabled /\ connectionState = "open"
    THEN [send |-> TRUE, value |-> trim(draft), draft |-> ""]
    ELSE [send |-> FALSE, value |-> trim(draft), draft |-> draft]

\* <Textarea disabled={disabled || connectionState !== "open"}>
TextareaEnabled == status = "open"

\* <Button type="submit" disabled={... || !draft.trim() || isWaitingForAgent}>
SubmitButtonEnabled ==
    status = "open" /\ trim(chatDraft) # "" /\ ~state.isWaitingForAgent

chatPanelFrame == <<limitsVars, breakerVars, retryVars, uploaderVars, debounceVars,
                    shellVars, inputVars, listVars, simVars,
      pureVars>>

\* the textarea's onChange
ChatType ==
    /\ TextareaEnabled
    /\ \E text \in Drafts \ {chatDraft} : chatDraft' = text
    /\ UNCHANGED <<onSendCalls, chatLast, streamVars, reducerVars, handlerVars,
                   chatPanelFrame>>

\* a submit attempt whose handler returned r; onSend is App.handleSendChat:
\* setWaitingForAgent(true), then the wrapper's sendMessage
SubmitAttempt(via, r) ==
    /\ chatLast' = [via |-> via, draft |-> chatDraft, status |-> status,
                    waiting |-> state.isWaitingForAgent, send |-> r.send]
    /\ chatDraft' = r.draft
    /\ IF r.send /\ trim(r.value) # ""
       THEN /\ onSendCalls' = Append(onSendCalls, r.value)
            /\ RunHandlerCore("setWaitingForAgent", [b |-> TRUE], setWaitingForAgent(TRUE))
            /\ nextMsg <= MaxMsgs
            /\ \E sendThrows \in BOOLEAN :
                  Commit(sendMessageSafely(Cur, nextMsg, sendThrows), "sendMessage")
            /\ offeredNotOpen' = IF socketRef = "OPEN" THEN offeredNotOpen
                                 ELSE offeredNotOpen \cup {nextMsg}
            /\ nextMsg' = nextMsg + 1
            /\ UNCHANGED <<mounted, manualClosed, autoRetries, pendingEvent, frameDropped>>
       ELSE UNCHANGED <<onSendCalls, streamVars, reducerVars, handlerVars>>
    /\ UNCHANGED chatPanelFrame

\* the send button is clicked: the form's submit event runs handleSubmit
ChatClickSend ==
    /\ SubmitButtonEnabled
    /\ SubmitAttempt("button", handleSubmit(chatDraft, status # "open", status))

\* Enter is pressed in the textarea
ChatPressEnter ==
    /\ TextareaEnabled
    /\ SubmitAttempt("enter", handleKeyDown(chatDraft, status # "open", status))

NextChatPanel ==
    \/ Mount
    \/ SocketOpen
    \/ SocketClose
    \/ ReconnectTimerFires
    \/ ChatType
    \/ ChatClickSend
    \/ ChatPressEnter
    \/ HandleStreamEvent({Ev("agent.message",
                             [js |-> "object", role |-> Str("assistant"),
                              content |-> Str("hi")], Undefined)})

SpecChatPanel == InitReducer /\ [][NextChatPanel]_vars

\* C23: a submit attempt calls onSend only if the draft is not blank, the
\* connection is open and isWaitingForAgent is false, and then clears the
\* draft; otherwise it changes nothing.
C23_SubmitGuard ==
    /\ chatLast.via # "none" /\ chatLast.send =>
          /\ trim(chatLast.draft) # ""
          /\ chatLast.status = "open"
          /\ ~chatLast.waiting
    /\ Len(onSendCalls) > 0 /\ chatLast.via # "none" /\ chatLast.send =>
          onSendCalls[Len(onSendCalls)] = trim(chatLast.draft)

\* the same for the attempts made with the send button
C23_ButtonSubmitGuard == chatLast.via = "button" => C23_SubmitGuard

(***************************************************************************)
(* App (rich shell).  setStatus schedules a render; the render that        *)
(* follows a status change commits the new connectionStatus and runs the   *)
(* effect whose dependencies changed with it.  The error and close events  *)
(* of a socket can be queued behind its open event and then run before     *)
(* that render; the open event of a new socket (a network round trip after *)
(* connect), timers and the user's actions come after it.  The             *)
(* graph.request message is a constant object, so socket.send does not     *)
(* raise for it.                                                           *)
(***************************************************************************)
\* the effect sending the request twice
graphRequestEffectTwice(c, m) ==
    IF c.uiStatus = "open"
    THEN LET c1 == sendMessageSafely(c, m, FALSE)
             c2 == sendMessageSafely(c1, m, FALSE)
         IN  [c2 EXCEPT !.graphRequests = @ \cup {m},
                        !.openRequests = @ + (IF m \in c2.sent THEN 2 ELSE 0)]
    ELSE c

\* useEffect(() => { if (connectionStatus === "open") sendMessage(...) }, [...])
graphRequestEffect(c, m) ==
    IF c.uiStatus = "open"
    THEN LET c1 == sendMessageSafely(c, m, FALSE)
         IN  [c1 EXCEPT !.graphRequests = @ \cup {m},
                        !.openRequests = @ + (IF m \in c1.sent THEN 1 ELSE 0)]
    ELSE c

RenderPending == uiStatus # status

\* App renders with the status set since its last render, and its effects run
RenderApp ==
    /\ mounted
    /\ ~unmounted
    /\ RenderPending
    /\ status = "open" => nextMsg <= MaxMsgs
    /\ Commit(graphRequestEffect([Cur EXCEPT !.uiStatus = status], nextMsg), "render")
    /\ offeredNotOpen' = IF status = "open" /\ socketRef # "OPEN"
                         THEN offeredNotOpen \cup {nextMsg} ELSE offeredNotOpen
    /\ nextMsg' = IF status = "open" THEN nextMsg + 1 ELSE nextMsg
    /\ UNCHANGED <<mounted, manualClosed, autoRetries, appVars>>

AfterRenderSocketOpen == ~RenderPending /\ SocketOpen
AfterRenderReconnectTimerFires == ~RenderPending /\ ReconnectTimerFires
AfterRenderRetryTimerFires == ~RenderPending /\ RetryTimerFires
AfterRenderClose == ~RenderPending /\ Close
AfterRenderReconnect == ~RenderPending /\ Reconnect

NextApp ==
    \/ Mount
    \/ AfterRenderSocketOpen
    \/ SocketError
    \/ SocketClose
    \/ DetachedSocketCloses
    \/ RenderApp
    \/ AfterRenderReconnectTimerFires
    \/ AfterRenderRetryTimerFires
    \/ AfterRenderClose
    \/ AfterRenderReconnect

SpecApp == InitReducer /\ [][NextApp]_vars

unmountCleanup(c) ==
    LET c1 == clearReconnectTimer([c EXCEPT !.manualCloseRef = TRUE])
    IN  cleanupSocket([c1 EXCEPT !.socketRef = "null",
                                 !.orphanSocket =
                                     c.socketRef \in {"CONNECTING", "OPEN", "CLOSING"},
                                 !.unmounted = TRUE])

Unmount ==
    /\ mounted
    /\ ~unmounted
    /\ Commit(unmountCleanup(Cur), "unmount")
    /\ UNCHANGED <<offeredNotOpen, nextMsg, mounted, manualClosed, autoRetries, appVars>>

\* the close event of the socket the cleanup closed
OrphanSocketCloses ==
    /\ orphanSocket
    /\ Commit(onclose([Cur EXCEPT !.orphanSocket = FALSE]), "orphanClose")
    /\ UNCHANGED <<offeredNotOpen, nextMsg, mounted, manualClosed, autoRetries, appVars>>

UserClose == ~unmounted /\ Close
UserReconnect == ~unmounted /\ Reconnect

NextTeardown ==
    \/ Mount
    \/ SocketOpen
    \/ SocketError
    \/ SocketClose
    \/ DetachedSocketCloses
    \/ ReconnectTimerFires
    \/ RetryTimerFires
    \/ UserClose
    \/ UserReconnect
    \/ Unmount
    \/ OrphanSocketCloses

SpecTeardown == InitReducer /\ [][NextTeardown]_vars

TimerOps == {"reconnectTimer", "retryTimer"}

\* C25: once the component is unmounted or the connection manually closed
\* (and not manually reconnected), no retry or backoff timer fires and no
\* step calls connect().
C25_TeardownCancelsTimers ==
    [][((unmounted \/ manualClosed) /\ lastOp' # "reconnect")
          => (lastOp' \notin TimerOps /\ connectCalls' = 0)]_vars

\* the same for the unmount alone
C25_UnmountCancelsTimers ==
    [][unmounted => (lastOp' \notin TimerOps /\ connectCalls' = 0)]_vars

\* the same for the manual close alone
C25_ManualCloseCancelsTimers ==
    [][(manualClosed /\ ~unmounted /\ lastOp' # "reconnect")
          => (lastOp' \notin TimerOps /\ connectCalls' = 0)]_vars

(***************************************************************************)
(* useDebounce(handlers.handleStreamEvent, 50): the function handed to the *)
(* stream hook as onEvent.  A call clears the pending timer and sets a new *)
(* one holding the call's arguments; the timer calls the callback.  Time   *)
(* is in ms; a timer fires when it is due, before the clock advances and   *)
(* before an event arriving in the same millisecond is handled.            *)
(***************************************************************************)
streamEventDelay == 50

\* a debounce that lets a pending timer run instead of replacing it
debouncedKeepPending(timer, args, t, delay) ==
    IF timer.set THEN timer ELSE [set |-> TRUE, args |-> args, at |-> t + delay]

\* the debounced function called with args at time t
debounced(timer, args, t, delay) == [set |-> TRUE, args |-> args, at |-> t + delay]

TimerDue == dbTimer.set /\ dbNow >= dbTimer.at

debounceFrame == <<streamVars, limitsVars, breakerVars, retryVars, uploaderVars,
                   chatPanelVars, shellVars, inputVars, listVars, simVars,
      pureVars>>

\* the n-th event of the stream
StreamEvent(n) ==
    [Ev("agent.log", [js |-> "object", message |-> Str("m")], Undefined)
        EXCEPT !.id = [t |-> "string", v |-> n]]

\* socket.onmessage with a frame that parses: onEvent(parsed)
EventArrives ==
    /\ ~TimerDue
    /\ Len(dbDelivered) < MaxFrames
    /\ LET n == Len(dbDelivered) + 1
       IN  /\ dbTimer' = debounced(dbTimer, StreamEvent(n), dbNow, streamEventDelay)
           /\ dbDelivered' = Append(dbDelivered, [id |-> n, at |-> dbNow])
    /\ UNCHANGED <<dbNow, dbDispatched, dbTicks, reducerVars, handlerVars, debounceFrame>>

\* the timer fires: callback(...args)
DebounceTimerFires ==
    /\ TimerDue
    /\ RunHandlerCore("handleStreamEvent", dbTimer.args, handleStreamEvent(dbTimer.args))
    /\ dbTimer' = [set |-> FALSE]
    /\ dbDispatched' = Append(dbDispatched, [id |-> dbTimer.args.id.v, at |-> dbNow])
    /\ UNCHANGED <<dbNow, dbDelivered, dbTicks, pendingEvent, frameDropped, debounceFrame>>

\* the clock advances, not beyond the time the pending timer is due
DebounceTick ==
    /\ dbTicks < MaxDebounceTicks
    /\ \E d \in {1, streamEventDelay - 1, streamEventDelay} :
          /\ dbTimer.set => dbNow + d <= dbTimer.at
          /\ dbNow' = dbNow + d
    /\ dbTicks' = dbTicks + 1
    /\ UNCHANGED <<dbTimer, dbDelivered, dbDispatched, reducerVars, handlerVars,
                   debounceFrame>>

NextDebounce ==
    \/ EventArrives
    \/ DebounceTimerFires
    \/ DebounceTick

SpecDebounce == InitReducer /\ [][NextDebounce]_vars

\* event i is the last of its burst: no event followed it within the delay
LastOfBurst(i) ==
    i < Len(dbDelivered) => dbDelivered[i + 1].at >= dbDelivered[i].at + streamEventDelay

DispatchedIds == {dbDispatched[k].id : k \in 1..Len(dbDispatched)}

\* C26: of the events delivered less than 50 ms apart only the last is
\* handed to handleStreamEvent, once, 50 ms after it arrived; the events
\* followed by another within 50 ms never are; the events handed over are in
\* the order of their delivery, and the log holds exactly their entries.
C26_DebounceBurst ==
    /\ \A k \in 1..Len(dbDispatched) :
          LET i == dbDispatched[k].id
          IN  /\ i \in 1..Len(dbDelivered)
              /\ LastOfBurst(i)
              /\ dbDispatched[k].at = dbDelivered[i].at + streamEventDelay
              /\ \A j \in 1..(k - 1) : dbDispatched[j].id < i
    /\ \A i \in 1..Len(dbDelivered) :
          (LastOfBurst(i) /\ (i < Len(dbDelivered) \/ ~dbTimer.set)) => i \in DispatchedIds
    /\ Len(state.logEntries) = Len(dbDispatched)
    /\ \A k \in 1..Len(dbDispatched) :
          state.logEntries[Len(dbDispatched) + 1 - k].id = dbDispatched[k].id

\* a burst of two events, of which the second was dispatched, and then a
\* third event on its own
C26_Witness ==
    /\ Len(dbDelivered) = 3
    /\ dbDelivered[2].at < dbDelivered[1].at + streamEventDelay
    /\ dbDelivered[2].at > dbDelivered[1].at
    /\ DispatchedIds = {2, 3}

(***************************************************************************)
(* The plain shell: pages/index.tsx keeps its state in useState cells and  *)
(* its handlers set them directly.  A handler is the state after its       *)
(* setState calls; n numbers the log entry whose id is generated.  The     *)
(* page's MAX_LOG_ENTRIES is 80, as is the reducer's.                      *)
(***************************************************************************)
pushLog(st, id, message, level, n) ==
    LET entry == [id |-> IF id = 0 THEN generateId(n) ELSE id,
                  message |-> message, level |-> level]
    IN  [st EXCEPT !.logEntries = SliceHead(<<entry>> \o @, MAX_LOG_ENTRIES)]

\* coerceHighlight: payload.nodeIds, when an array, is given as a sequence of strings
coerceHighlight(payload) ==
    IF ~Truthy(payload) \/ ~("js" \in DOMAIN payload /\ payload.js = "object") THEN <<>>
    ELSE IF "nodeIds" \in DOMAIN payload THEN payload.nodeIds ELSE <<>>

pageHandleGraphLoaded(st, payload, n) ==
    pushLog([st EXCEPT !.graphData = payload, !.highlightedNodes = <<>>,
                       !.scenarioResults = Null, !.scenarioStatus = Null],
            0, <<"Loaded graph with", payload.nodes.length, payload.edges.length>>,
            "info", n)

pageHandleCypher(st, result, n) ==
    pushLog([st EXCEPT !.cypherResult = result,
                       !.highlightedNodes = AddRecords(<<>>, result.records)],
            0, <<"Cypher returned", Len(result.records), "record(s)">>, "debug", n)

pageHandleStreamEvent(st, event, n) ==
    LET payload == event.payload
        id == event.id.v
        level == Coalesce(event.level, Str("info")).v
    IN  CASE event.type.v \in {"agent.log", "agent.step"} ->
                pushLog(st, id,
                        <<Coalesce(Get(payload, "message"),
                                   Coalesce(Get(payload, "text"), event.type)).v>>,
                        level, n)
          [] event.type.v = "scenario.status" ->
                LET s == coerceScenarioStatus(payload)
                IN  IF s = Null THEN st
                    ELSE pushLog([st EXCEPT !.scenarioStatus = s], id,
                                 <<"Scenario", s.jobId, "is", s.status>>,
                                 IF s.status = "failed" THEN "error" ELSE "info", n)
          [] event.type.v = "scenario.result" ->
                pushLog([st EXCEPT !.scenarioResults = payload], id,
                        <<"Scenario results received">>, "info", n)
          [] event.type.v = "graph.replace" ->
                IF ~isGraphPayload(payload) THEN st
                ELSE pushLog([st EXCEPT !.graphData = payload], id,
                             <<"Graph snapshot replaced from agent stream">>, "info", n)
          [] event.type.v = "graph.highlight" ->
                LET nodes == coerceHighlight(payload)
                IN  IF Len(nodes) = 0 THEN st
                    ELSE pushLog([st EXCEPT !.highlightedNodes = nodes], id,
                                 <<"Highlighting", Len(nodes), "node(s) from agent stream">>,
                                 "debug", n)
          [] event.type.v = "notification" ->
                pushLog(st, id,
                        <<Coalesce(Get(payload, "message"), Str("Notification received")).v>>,
                        level, n)
          [] OTHER -> pushLog(st, id, <<event.type.v>>, level, n)

(***************************************************************************)
(* Both shells under the same inputs: every step hands one stream event,   *)
(* one uploaded graph or one query result to the handlers of each.         *)
(***************************************************************************)
shellsFrame == <<streamVars, limitsVars, breakerVars, retryVars, uploaderVars,
                 chatPanelVars, debounceVars, inputVars, listVars, simVars, pendingEvent,
                 frameDropped,
      pureVars>>

BothStreamEvent(events) ==
    /\ \E e \in events :
          /\ RunHandlerCore("handleStreamEvent", e, handleStreamEvent(e))
          /\ plain' = pageHandleStreamEvent(plain, e, logAdded + 1)
    /\ UNCHANGED shellsFrame

BothGraphLoaded ==
    /\ \E g \in {Graph(3, 1), Graph(2, 2)} :
          /\ RunHandlerCore("handleGraphLoadedEvent", g, handleGraphLoadedEvent(g))
          /\ plain' = pageHandleGraphLoaded(plain, g, logAdded + 1)
    /\ UNCHANGED shellsFrame

BothCypherResult ==
    /\ \E r \in CypherResults :
          /\ RunHandlerCore("handleCypherResultEvent", r, handleCypherResultEvent(r))
          /\ plain' = pageHandleCypher(plain, r, logAdded + 1)
    /\ UNCHANGED shellsFrame

NextShells ==
    \/ BothStreamEvent(LogEvents)
    \/ BothStreamEvent(StatusEvents)
    \/ BothStreamEvent(OtherEvents)
    \/ BothStreamEvent(ReplaceEvents)
    \/ BothStreamEvent(HighlightEvents)
    \/ BothGraphLoaded
    \/ BothCypherResult

SpecShells == InitReducer /\ [][NextShells]_vars

\* a log entry without the id the shell generated for it
Shown(entries) ==
    [i \in 1..Len(entries) |->
        [id |-> IF entries[i].id >= generateId(0) THEN 0 ELSE entries[i].id,
         message |-> entries[i].message, level |-> entries[i].level]]

\* C27: after every sequence of stream events, graph loads and query results
\* the plain shell's graphData, highlightedNodes, scenarioStatus,
\* scenarioResults and log entries equal those of the rich shell's reducer state
C27_ShellsAgree ==
    /\ plain.graphData = state.graphData
    /\ plain.highlightedNodes = state.highlightedNodes
    /\ plain.scenarioStatus = state.scenarioStatus
    /\ plain.scenarioResults = state.scenarioResults
    /\ Shown(plain.logEntries) = Shown(state.logEntries)

(***************************************************************************)
(* The query console and the scenario controls of the rich shell, as App   *)
(* wires them: CypherQueryBar.onResult is handleCypherResultEvent;         *)
(* ScenarioControls.onScenarioStarted and onScenarioError each build a     *)
(* stream event and pass it to handlers.handleStreamEvent, undebounced.    *)
(* A submit is split at its await of the REST call.                        *)
(***************************************************************************)
\* what the rejection of runCypher or startScenario says
RestErrors == {"Failed to fetch"}

\* the bodies run_cypher answers with: one entity, and no record
QueryResults ==
    {[js |-> "object", records |-> rs] : rs \in {<< <<Entity(Str("n1"))>> >>, << >>}}

\* the bodies start_attack answers with
ScenarioResponses ==
    {[js |-> "object", jobId |-> Str("j1"), status |-> Str("queued")]}

onScenarioStarted(response) ==
    handleStreamEvent(Ev("scenario.status", response, Undefined))

onScenarioError(message) ==
    handleStreamEvent(Ev("agent.log",
                         [js |-> "object", message |-> Str("Scenario failed: " \o message)],
                         Str("error")))

inputFrame == <<limitsVars, breakerVars, retryVars, uploaderVars, chatPanelVars,
                debounceVars, shellVars, listVars, simVars, pendingEvent, frameDropped,
      pureVars>>

\* CypherQueryBar.handleSubmit up to its await; the button is disabled while loading
CqSubmit ==
    /\ ~cqLoading
    /\ \E query \in {"", "MATCH (n) RETURN n"} :
          IF trim(query) = ""
          THEN /\ inLast' = [panel |-> "query", outcome |-> "blank"]
               /\ UNCHANGED <<cqLoading, cqError>>
          ELSE /\ inLast' = [panel |-> "query", outcome |-> "submitted"]
               /\ cqLoading' = TRUE
               /\ cqError' = <<>>
    /\ UNCHANGED <<scLoading, streamVars, reducerVars, handlerVars, inputFrame>>

\* runCypher resolves: setResult, onResult, then the finally
CqResolves ==
    /\ cqLoading
    /\ \E r \in QueryResults :
          RunHandlerCore("handleCypherResultEvent", r, handleCypherResultEvent(r))
    /\ cqLoading' = FALSE
    /\ inLast' = [panel |-> "query", outcome |-> "result"]
    /\ UNCHANGED <<cqError, scLoading, streamVars, inputFrame>>

\* runCypher rejects: setError, then the finally
CqRejects ==
    /\ cqLoading
    /\ \E e \in RestErrors : cqError' = <<e>>
    /\ cqLoading' = FALSE
    /\ inLast' = [panel |-> "query", outcome |-> "failed"]
    /\ UNCHANGED <<scLoading, streamVars, reducerVars, handlerVars, inputFrame>>

\* ScenarioControls.handleSubmit up to its await; the button is disabled while loading
ScSubmit ==
    /\ ~scLoading
    /\ scLoading' = TRUE
    /\ inLast' = [panel |-> "scenario", outcome |-> "submitted"]
    /\ UNCHANGED <<cqLoading, cqError, streamVars, reducerVars, handlerVars, inputFrame>>

\* startScenario resolves: onScenarioStarted, sendMessage, then the finally
ScResolves ==
    /\ scLoading
    /\ \E response \in ScenarioResponses :
          RunHandlerCore("handleStreamEvent", response, onScenarioStarted(response))
    /\ nextMsg <= MaxMsgs
    /\ \E sendThrows \in BOOLEAN :
          Commit(sendMessageSafely(Cur, nextMsg, sendThrows), "sendMessage")
    /\ offeredNotOpen' = IF socketRef = "OPEN" THEN offeredNotOpen
                         ELSE offeredNotOpen \cup {nextMsg}
    /\ nextMsg' = nextMsg + 1
    /\ scLoading' = FALSE
    /\ inLast' = [panel |-> "scenario", outcome |-> "started"]
    /\ UNCHANGED <<cqLoading, cqError, mounted, manualClosed, autoRetries, inputFrame>>

\* startScenario rejects: onScenarioError, then the finally
ScRejects ==
    /\ scLoading
    /\ \E e \in RestErrors :
          RunHandlerCore("handleStreamEvent", [message |-> e], onScenarioError(e))
    /\ scLoading' = FALSE
    /\ inLast' = [panel |-> "scenario", outcome |-> "failed"]
    /\ UNCHANGED <<cqLoading, cqError, streamVars, inputFrame>>

\* the query console and the scenario controls, with the chat's waiting flag
\* and the connection; the uploader runs under SpecUploader
NextInput ==
    \/ Mount
    \/ SocketOpen
    \/ SetWaitingForAgent
    \/ CqSubmit
    \/ CqResolves
    \/ CqRejects
    \/ ScSubmit
    \/ ScResolves
    \/ ScRejects

SpecInput == InitReducer /\ [][NextInput]_vars

\* the step in which an uploaded file fails to parse
UploadParseFails ==
    \E i \in 1..Len(upTasks) : upTasks[i].pc = "reading" /\ upTasks'[i].pc = "failed"

QueryFails == cqLoading /\ inLast'.panel = "query" /\ inLast'.outcome = "failed"

ScenarioStartFails == scLoading /\ inLast'.panel = "scenario" /\ inLast'.outcome = "failed"

\* C28: a graph file that fails to parse, a query that fails and a scenario
\* start that fails each leave the AppState, logEntries and isWaitingForAgent
\* included, exactly as it was
C28_InvalidInputKeepsAppState ==
    [][(UploadParseFails \/ QueryFails \/ ScenarioStartFails) => state' = state]_vars

\* C28 for the uploader alone
C28_UploadKeepsAppState == [][UploadParseFails => state' = state]_vars

\* C28 for the query console alone
C28_QueryKeepsAppState == [][QueryFails => state' = state]_vars

(***************************************************************************)
(* The virtualized log panel.  useVirtualList keeps the scroll offset in a *)
(* ref and memoizes its result on [items, itemHeight, containerHeight,     *)
(* overscan]: the result is computed when the log entries change, from the *)
(* offset the ref holds then.  The panel's onScroll writes the ref.  The   *)
(* list is the number of its entries; offsets are whole pixels.            *)
(***************************************************************************)
itemHeight == 32
maxHeight == 400
overscan == 10

\* the body of useVirtualList's useMemo for n items at offset top
useVirtualList(n, ih, containerHeight, os, top) ==
    LET startIndex == Max(0, (top \div ih) - os)
        endIndex == Min(n - 1, ((top + containerHeight) \div ih) + os)
    IN  [visibleItems |->
            [k \in 1..Max(0, Min(endIndex + 1, n) - startIndex) |->
                [index |-> startIndex + k - 1, offsetTop |-> (startIndex + k - 1) * ih]],
         totalHeight |-> n * ih]

\* the largest offset the container scrolls to
MaxScrollTop(n) == Max(0, n * itemHeight - maxHeight)

\* the effect that follows new entries: stay at the bottom when near it
autoScroll(n, top) ==
    IF n > 0 /\ n * itemHeight - top <= maxHeight + 50 THEN MaxScrollTop(n) ELSE top

listFrame == <<streamVars, reducerVars, handlerVars, limitsVars, breakerVars, retryVars,
               uploaderVars, chatPanelVars, debounceVars, shellVars, inputVars, simVars,
      pureVars>>

\* logEntries is replaced by an array with one entry more, or as many at the cap:
\* the panel renders, the memo is recomputed, then the auto-scroll effect runs
\* if the length changed
VlEntryAdded ==
    LET n == Min(vlCount + 1, MAX_LOG_ENTRIES)
    IN  /\ vlCount' = n
        /\ vlResult' = useVirtualList(n, itemHeight, maxHeight, overscan, vlScrollTop)
        /\ vlDomTop' = IF n # vlCount THEN autoScroll(n, vlDomTop) ELSE vlDomTop
        /\ vlLast' = "render"
        /\ UNCHANGED <<vlScrollTop, listFrame>>

\* the user scrolls the container: the scroll event runs handleScroll
VlUserScroll ==
    /\ vlCount > 0
    /\ \E top \in {0, 10 * itemHeight, MaxScrollTop(vlCount)} :
          /\ top <= MaxScrollTop(vlCount)
          /\ top # vlDomTop
          /\ vlDomTop' = top
          /\ vlScrollTop' = top
    /\ vlLast' = "scroll"
    /\ UNCHANGED <<vlCount, vlResult, listFrame>>

\* the scroll event of an offset the auto-scroll effect set runs handleScroll
VlScrollEvent ==
    /\ vlDomTop # vlScrollTop
    /\ vlScrollTop' = vlDomTop
    /\ vlLast' = "scroll"
    /\ UNCHANGED <<vlCount, vlDomTop, vlResult, listFrame>>

NextList ==
    \/ VlEntryAdded
    \/ VlUserScroll
    \/ VlScrollEvent

SpecList == InitReducer /\ [][NextList]_vars

\* C29: after every scroll event the rendered window is the index range
\* [max(0, floor(scrollTop/32) - 10), min(n - 1, floor((scrollTop + 400)/32) + 10)]
\* of the current scroll offset, each item with offsetTop = index * 32, and
\* the total height is n * 32
C29_WindowFollowsScroll ==
    vlLast = "scroll" =>
        LET first == Max(0, (vlScrollTop \div 32) - 10)
            last == Min(vlCount - 1, ((vlScrollTop + maxHeight) \div 32) + 10)
        IN  /\ {vlResult.visibleItems[k].index : k \in 1..Len(vlResult.visibleItems)}
                  = first..last
            /\ \A k \in 1..Len(vlResult.visibleItems) :
                  vlResult.visibleItems[k].offsetTop = vlResult.visibleItems[k].index * 32
            /\ vlResult.totalHeight = vlCount * 32

\* C29 for the render that follows new entries, from the offset recorded then
C29_WindowAtRender ==
    vlLast = "render" =>
        LET first == Max(0, (vlScrollTop \div 32) - 10)
            last == Min(vlCount - 1, ((vlScrollTop + maxHeight) \div 32) + 10)
        IN  /\ {vlResult.visibleItems[k].index : k \in 1..Len(vlResult.visibleItems)}
                  = first..last
            /\ \A k \in 1..Len(vlResult.visibleItems) :
                  vlResult.visibleItems[k].offsetTop = vlResult.visibleItems[k].index * 32
            /\ vlResult.totalHeight = vlCount * 32

\* every row inside the viewport is among the rendered items
C29_ViewportRendered ==
    \A i \in 0..(vlCount - 1) :
        (i * itemHeight + itemHeight > vlDomTop /\ i * itemHeight < vlDomTop + maxHeight)
            => \E k \in 1..Len(vlResult.visibleItems) : vlResult.visibleItems[k].index = i

(***************************************************************************)
(* The simulation panel and its monitor.  The monitor stores every stream  *)
(* event in lastEvent and handles it in an effect whose dependencies are   *)
(* [lastEvent, jobId, onComplete, onError].  The panel passes              *)
(* handleSimulationComplete and handleSimulationError, functions it        *)
(* creates anew at each of its renders, and jobId = activeJobId ||         *)
(* undefined, where activeJobId is only ever set to null.  React runs the  *)
(* effect after a render in which a dependency differs from the one of its *)
(* last run; a frame is handled before the next one arrives.               *)
(***************************************************************************)
\* the frames a stream delivers; n numbers them
SimFrames(n) ==
    {[n |-> n, type |-> "simulation_progress",
      payload |-> [job_id |-> "j1", status |-> st, event |-> ev]] :
        st \in {"running", "completed", "failed"}, ev \in BOOLEAN}
    \cup {[n |-> n, type |-> "agent.log",
           payload |-> [job_id |-> "j1", status |-> "completed", event |-> FALSE]]}

\* the effect's test of the event against the watched job; jobId <<>> is undefined
Monitored(event, jobId) ==
    /\ event.type \in {"simulation_event", "simulation_progress"}
    /\ (Len(jobId) = 0 \/ <<event.payload.job_id>> = jobId)

\* SimulationPanel's jobId prop: activeJobId || undefined
jobIdProp == <<>>

\* handleSimulationComplete: [results, ...prev].slice(0, 10)
handleSimulationComplete(prev, results) == SliceHead(<<results>> \o prev, 10)

\* handleSimulationError's setError
handleSimulationError(errorMessage) == <<errorMessage>>

simFrame == <<streamVars, reducerVars, handlerVars, limitsVars, breakerVars, retryVars,
              uploaderVars, chatPanelVars, debounceVars, shellVars, inputVars, listVars,
      pureVars>>

\* the stream hook's onEvent: setLastEvent(event), a new object for every frame
SmFrameArrives ==
    /\ ~smDepsChanged
    /\ smFrames < MaxSimFrames
    /\ \E event \in SimFrames(smFrames + 1) : smLastEvent' = event
    /\ smFrames' = smFrames + 1
    /\ smDepsChanged' = TRUE
    /\ UNCHANGED <<smActive, smEvents, smVisible, smHideTimers, smCompleted, smError,
                   smCalls, smRuns, simFrame>>

\* the effect runs; a state change of the panel renders it again, which hands
\* new onComplete and onError functions to the monitor
SmEffectRuns ==
    /\ smDepsChanged
    /\ smRuns < MaxEffectRuns
    /\ smRuns' = smRuns + 1
    /\ IF smLastEvent # Null /\ Monitored(smLastEvent, jobIdProp)
       THEN LET simData == smLastEvent.payload
                completed == simData.status = "completed"
                failed == simData.status = "failed"
                history == IF completed
                           THEN handleSimulationComplete(smCompleted, smLastEvent.n)
                           ELSE smCompleted
                error == IF failed THEN handleSimulationError("Simulation failed")
                         ELSE smError
            IN  /\ smActive' = simData
                /\ smVisible' = TRUE
                /\ smEvents' = IF simData.event
                               THEN SliceHead(<<smLastEvent.n>> \o smEvents, 20)
                               ELSE smEvents
                /\ smCalls' = smCalls
                      \o (IF completed THEN <<[call |-> "onComplete", n |-> smLastEvent.n]>>
                          ELSE <<>>)
                      \o (IF failed THEN <<[call |-> "onError", n |-> smLastEvent.n]>>
                          ELSE <<>>)
                /\ smHideTimers' = IF completed THEN smHideTimers + 1 ELSE smHideTimers
                /\ smCompleted' = history
                /\ smError' = error
                /\ smDepsChanged' = (completed \/ error # smError)
       ELSE /\ smDepsChanged' = FALSE
            /\ UNCHANGED <<smActive, smEvents, smVisible, smHideTimers, smCompleted,
                           smError, smCalls>>
    /\ UNCHANGED <<smLastEvent, smFrames, simFrame>>

\* an auto-hide timer fires
SmHideTimerFires ==
    /\ smHideTimers > 0
    /\ smHideTimers' = smHideTimers - 1
    /\ smVisible' = FALSE
    /\ UNCHANGED <<smLastEvent, smActive, smEvents, smDepsChanged, smCompleted, smError,
                   smCalls, smFrames, smRuns, simFrame>>

\* the error banner's button: clearError renders the panel again
SmClearError ==
    /\ Len(smError) > 0
    /\ smError' = <<>>
    /\ smDepsChanged' = TRUE
    /\ UNCHANGED <<smLastEvent, smActive, smEvents, smVisible, smHideTimers, smCompleted,
                   smCalls, smFrames, smRuns, simFrame>>

NextSim ==
    \/ SmFrameArrives
    \/ SmEffectRuns
    \/ SmHideTimerFires
    \/ SmClearError

SpecSim == InitReducer /\ [][NextSim]_vars

\* the frames onComplete was called with, oldest first
CompleteCalls == SelectSeq(smCalls, LAMBDA c : c.call = "onComplete")

\* C30: the completion callback is invoked exactly once for every completed
\* frame the monitor has handled, so the history holds one entry per
\* completed run, at most the 10 most recent, newest first
C30_CompletionOncePerFrame ==
    /\ \A i, j \in 1..Len(CompleteCalls) : CompleteCalls[i].n = CompleteCalls[j].n => i = j
    /\ (~smDepsChanged /\ smLastEvent # Null /\ Monitored(smLastEvent, jobIdProp)
        /\ smLastEvent.payload.status = "completed")
          => \E i \in 1..Len(CompleteCalls) : CompleteCalls[i].n = smLastEvent.n
    /\ Len(smCompleted) <= 10
    /\ smCompleted = SliceHead([i \in 1..Len(CompleteCalls) |->
                                   CompleteCalls[Len(CompleteCalls) + 1 - i].n], 10)
    /\ \A i, j \in 1..Len(smCompleted) : i < j => smCompleted[i] > smCompleted[j]

\* the history is capped at 10 and holds, newest first, what the callback was given
C30_HistoryOfCalls ==
    /\ Len(smCompleted) <= 10
    /\ smCompleted = SliceHead([i \in 1..Len(CompleteCalls) |->
                                   CompleteCalls[Len(CompleteCalls) + 1 - i].n], 10)

(***************************************************************************)
(* computeBackoff over its arguments: every attempt count up to the bound  *)
(* and every jitter the generator can yield.                               *)
(***************************************************************************)
backoffFrame == <<streamVars, reducerVars, handlerVars, limitsVars, breakerVars, retryVars,
                  uploaderVars, chatPanelVars, debounceVars, shellVars, inputVars, listVars,
                  simVars, layoutVars, agentVars>>

\* a call of computeBackoff; the arguments are enumerated from those of the
\* call before: the same or the next attempt count or 0, the same or the
\* next jitter
ComputeBackoff ==
    /\ \E attempt \in {0, bkAttempt, bkAttempt + 1} \cap (0..MaxBackoffAttempt),
          jitter \in {bkJitter, bkJitter + 1} \cap Jitters :
          /\ bkAttempt' = attempt
          /\ bkJitter' = jitter
          /\ bkDelay' = computeBackoff(attempt, jitter)
    /\ UNCHANGED backoffFrame

NextBackoff == ComputeBackoff

SpecBackoff == InitReducer /\ [][NextBackoff]_vars

\* C31: the reconnect delay never exceeds 15000 ms, is not smaller than the
\* delay of any lower attempt count with the same jitter, and from attempt 8
\* on equals the delay of attempt 8
C31_BackoffBounds ==
    /\ bkDelay <= 15000
    /\ \A attempt \in 0..bkAttempt : computeBackoff(attempt, bkJitter) <= bkDelay
    /\ bkAttempt >= 8 => bkDelay = computeBackoff(8, bkJitter)

\* an attempt past 8 at the largest jitter, with a smaller delay at attempt 0
C31_Witness ==
    /\ bkAttempt > 8
    /\ bkJitter = 1199
    /\ computeBackoff(0, bkJitter) < bkDelay

(***************************************************************************)
(* InteractiveGraphCanvas.applyLayout.  A node's position is a record: for *)
(* the grid and for the initial coordinates x and y are the numbers; for   *)
(* the circular layout x and y are the centre and the position is          *)
(* (x + radius * cos(2 * PI * index / count),                              *)
(*  y + radius * sin(2 * PI * index / count)).  The graph memo gives every *)
(* node numeric x and y (Number(attrs.x ?? Math.random() * 100)), so the   *)
(* force branch finds nothing to lay out and leaves the positions.         *)
(***************************************************************************)
Seeds == {1, 2}

Position(x, y, radius, index, count) ==
    [x |-> x, y |-> y, radius |-> radius, index |-> index, count |-> count]

\* the coordinates the graph memo gives node i (from 0) under a generator seed
initialPosition(i, seed) == Position((seed * 37 + i * 11) % 100, (seed * 53 + i * 7) % 100, 0, 0, 1)

initialPositions(n, seed) == [k \in 1..n |-> initialPosition(k - 1, seed)]

\* Math.ceil(Math.sqrt(n))
ceilSqrt(n) == CHOOSE g \in 0..n : g * g >= n /\ \A h \in 0..n : h * h >= n => g <= h

\* the grid branch with row and column exchanged
gridPositionTransposed(index, n) ==
    LET gridSize == ceilSqrt(n)
        row == index \div gridSize
        col == index % gridSize
    IN  Position(row * 15, col * 15, 0, 0, 1)

gridPosition(index, n) ==
    LET gridSize == ceilSqrt(n)
        row == index \div gridSize
        col == index % gridSize
    IN  Position(col * 15, row * 15, 0, 0, 1)

circularPosition(index, n) ==
    LET radius == Min(40, Max(10, n * 2))
    IN  Position(50, 50, radius, index, n)

applyLayout(layout, positions) ==
    LET n == Len(positions)
    IN  CASE layout = "circular" -> [k \in 1..n |-> circularPosition(k - 1, n)]
          [] layout = "grid" -> [k \in 1..n |-> gridPosition(k - 1, n)]
          [] OTHER -> positions

layoutFrame == <<streamVars, reducerVars, handlerVars, limitsVars, breakerVars, retryVars,
                 uploaderVars, chatPanelVars, debounceVars, shellVars, inputVars, listVars,
                 simVars, backoffVars, agentVars>>

\* graphData changes: the memo builds a new graph and the renderer effect
\* applies the layout to it
LyGraphChanged ==
    /\ \E n \in 0..MaxLayoutNodes, seed \in Seeds :
          /\ lyPrev' = initialPositions(n, seed)
          /\ lyPos' = applyLayout(lyLayout, initialPositions(n, seed))
    /\ lyApplied' = 1
    /\ UNCHANGED <<lyLayout, layoutFrame>>

\* settings change (the layout or another setting): the renderer effect runs
\* again and applies the layout to the same graph
LySettingsChanged ==
    /\ \E layout \in {"force", "circular", "grid"} :
          /\ lyLayout' = layout
          /\ lyPos' = applyLayout(layout, lyPos)
          /\ lyApplied' = IF layout = lyLayout THEN lyApplied + 1 ELSE 1
    /\ lyApplied' <= MaxLayoutRuns
    /\ lyPrev' = lyPos
    /\ UNCHANGED layoutFrame

NextLayout ==
    \/ LyGraphChanged
    \/ LySettingsChanged

SpecLayout == InitReducer /\ [][NextLayout]_vars

\* C32: once the grid or the circular layout has been applied the positions
\* are the same whatever the coordinates were before; the grid puts node i of
\* n at (15 * (i mod g), 15 * floor(i / g)) with g = ceil(sqrt(n)); a second
\* application leaves every coordinate as it is
C32_LayoutDeterministic ==
    (lyApplied >= 1 /\ lyLayout \in {"circular", "grid"}) =>
        LET n == Len(lyPos)
        IN  /\ \A seed \in Seeds : lyPos = applyLayout(lyLayout, initialPositions(n, seed))
            /\ lyLayout = "grid" =>
                  \E g \in 0..n :
                      /\ g * g >= n
                      /\ (g = 0 \/ (g - 1) * (g - 1) < n)
                      /\ \A i \in 0..(n - 1) :
                            /\ lyPos[i + 1].x = 15 * (i % g)
                            /\ lyPos[i + 1].y = 15 * (i \div g)
                            /\ lyPos[i + 1].radius = 0
            /\ lyLayout = "circular" =>
                  \A i \in 0..(n - 1) : lyPos[i + 1].index = i /\ lyPos[i + 1].count = n
            /\ lyApplied >= 2 => lyPos = lyPrev

\* the grid applied twice to a graph whose last row is not full
C32_Witness ==
    /\ lyLayout = "grid"
    /\ lyApplied = 2
    /\ Len(lyPos) = 7
    /\ lyPos[7].x = 0 /\ lyPos[7].y = 30

(***************************************************************************)
(* Properties of the stream client's reconnect cycle.                      *)
(***************************************************************************)
\* the transport closes without a manual close, auto-reconnect being on
NonManualClose == SocketClose /\ ~manualCloseRef /\ autoReconnect

\* C33: after a non-manual close with auto-reconnect the status is retrying
\* while the backoff timer is pending; the timer's firing adds exactly one to
\* the attempt counter and starts a connection; an open resets the counter
\* to 0 and sets the status to open
C33_ReconnectCycle ==
    [][/\ NonManualClose => (reconnectTimeoutRef' /\ status' = "retrying")
       /\ ReconnectTimerFires =>
             (attemptsRef' = attemptsRef + 1 /\ connectCalls' = 1
              /\ (wsUrlValid => status' = "connecting"))
       /\ SocketOpen => (attemptsRef' = 0 /\ status' = "open")]_vars

\* C33 with the status the client has while the timer is pending
C33_ReconnectCycleClosedWhileWaiting ==
    [][/\ NonManualClose => (reconnectTimeoutRef' /\ status' = "closed")
       /\ ReconnectTimerFires =>
             (attemptsRef' = attemptsRef + 1 /\ connectCalls' = 1
              /\ (wsUrlValid => status' = "connecting"))
       /\ SocketOpen => (attemptsRef' = 0 /\ status' = "open")]_vars

\* the status is retrying in no state between two handlers
C33_RetryingNeverObserved == status # "retrying"

(***************************************************************************)
(* The reducer under every action type of AppAction, one dispatch at a     *)
(* time.                                                                   *)
(***************************************************************************)
ReducerGraphs == {Graph(2, 1)}
ReducerHighlights == {<<>>, <<"n1">>}
ReducerStatuses ==
    {[jobId |-> "j1", status |-> s, startedAt |-> Undefined, completedAt |-> Undefined,
      details |-> Undefined] : s \in {"running"}}
ReducerFindings == {[js |-> "object", findings |-> 1]}
ConnectionStates == {"open", "closed"}

GraphActions == {[type |-> t, payload |-> g] : t \in GraphActionTypes, g \in ReducerGraphs}
HighlightActions == {[type |-> "NODES_HIGHLIGHTED", payload |-> h] : h \in ReducerHighlights}
StatusActions == {[type |-> "SCENARIO_STATUS_UPDATED", payload |-> s] : s \in ReducerStatuses}
ResultsActions == {[type |-> "SCENARIO_RESULTS_SET", payload |-> f] : f \in ReducerFindings}
CypherActions == {[type |-> "CYPHER_RESULT_SET", payload |-> r] : r \in QueryResults}
ConnectionActions ==
    {[type |-> "CONNECTION_STATUS_CHANGED", payload |-> c] : c \in ConnectionStates}
\* an action type the switch has no case for
AgentEventActions ==
    {[type |-> "AGENT_EVENT_RECEIVED", payload |-> Ev("agent.step", Obj, Undefined)]}

NextReducer ==
    \/ \E a \in GraphActions : Dispatch(a)
    \/ \E a \in HighlightActions : Dispatch(a)
    \/ \E a \in StatusActions : Dispatch(a)
    \/ \E a \in ResultsActions : Dispatch(a)
    \/ \E a \in CypherActions : Dispatch(a)
    \/ \E a \in LogActions(SmallAdds, {0}, {"info"}) : Dispatch(a)
    \/ \E a \in ChatActions(SmallAdds) : Dispatch(a)
    \/ \E a \in WaitingActions : Dispatch(a)
    \/ \E a \in ConnectionActions : Dispatch(a)
    \/ \E a \in AgentEventActions : Dispatch(a)

SpecReducer == InitReducer /\ [][NextReducer]_vars

\* the fields of AppState an action type may change
OwnFields(type) ==
    CASE type \in GraphActionTypes ->
            {"graphData", "highlightedNodes", "scenarioStatus", "scenarioResults"}
      [] type = "NODES_HIGHLIGHTED" -> {"highlightedNodes"}
      [] type = "SCENARIO_STATUS_UPDATED" -> {"scenarioStatus"}
      [] type = "SCENARIO_RESULTS_SET" -> {"scenarioResults"}
      [] type = "CYPHER_RESULT_SET" -> {"cypherResult"}
      [] type = "LOG_ENTRY_ADDED" -> {"logEntries"}
      [] type = "CHAT_MESSAGE_ADDED" -> {"chatMessages"}
      [] type = "AGENT_WAITING_SET" -> {"isWaitingForAgent"}
      [] type = "CONNECTION_STATUS_CHANGED" -> {"connectionStatus"}
      [] OTHER -> {}

\* C34: a dispatch changes no field of the state other than those of its
\* action type (GRAPH_LOADED and GRAPH_REPLACED: graphData, highlightedNodes,
\* scenarioStatus and scenarioResults only), and an action type without a case
\* leaves the whole state as it was
C34_ReducerFrame ==
    [][/\ \A f \in DOMAIN state \ OwnFields(lastAction') : state'[f] = state[f]
       /\ lastAction' = "AGENT_EVENT_RECEIVED" => state' = state]_vars

\* a graph was replaced while a query result, a log entry, a chat message and
\* the waiting flag were set
C34_Witness ==
    /\ lastAction = "GRAPH_REPLACED"
    /\ state.cypherResult # Null
    /\ Len(state.logEntries) > 0
    /\ Len(state.chatMessages) > 0
    /\ state.isWaitingForAgent
    /\ state.connectionStatus = "open"

(***************************************************************************)
(* The wrapper's retry timer and the client's backoff timer.               *)
(***************************************************************************)
\* a connection attempt made after the last close is still in progress or open
AttemptInProgress == socketRef \in {"CONNECTING", "OPEN"}

\* C35: with the wrapper over the client, a non-manual close leads to one new
\* connection attempt: once a connection has been started after the close, no
\* retry or backoff timer starts another one for it
C35_OneAttemptPerClose ==
    [][(wrapped /\ AttemptInProgress /\ lastOp' \in TimerOps) => connectCalls' = 0]_vars

\* a close with the wrapper sets both timers
C35_BothTimersPending ==
    [][(wrapped /\ NonManualClose /\ ~isManualCloseRef /\ retryCountRef < maxRetries)
          => (reconnectTimeoutRef' /\ retryTimeoutRef' = "pending")]_vars

\* C36: in every reachable state of the retry wrapper, retryCount is at most
\* maxRetries
C36_RetryCountBounded == wrapped => retryCountRef <= maxRetries

\* only the retry timer's callback, which tests nothing before counting, takes
\* retryCount above maxRetries
C36_OnlyTimerExceeds ==
    [][(wrapped /\ retryCountRef <= maxRetries /\ retryCountRef' > maxRetries)
          => lastOp' = "retryTimer"]_vars

(***************************************************************************)
(* The circuit breaker with operations in flight.                          *)
(***************************************************************************)
\* C37: once OPEN, the breaker stays OPEN until a call of execute() made when
\* the timeout has elapsed since the last failure; operations that were in
\* flight and settle meanwhile do not change that
C37_OpenUntilProbe ==
    [][(cbState = "OPEN" /\ cbState' # "OPEN")
          => (cbLast'.op = "probe" /\ now - cbLastFailureTime >= timeout)]_vars

\* the breaker leaves OPEN by such a call or by the success of an operation
\* that was in flight
C37_OpenUntilProbeOrSuccess ==
    [][(cbState = "OPEN" /\ cbState' # "OPEN")
          => \/ cbLast'.op = "probe" /\ now - cbLastFailureTime >= timeout
             \/ cbLast'.op = "success" /\ cbState' = "CLOSED"]_vars

(***************************************************************************)
(* The graph held by the rich shell, set by uploads and by graph.replace   *)
(* events of the stream.                                                   *)
(***************************************************************************)
\* graph.replace events carrying a graph beyond the limits or with a node
\* that has no id
UncheckedReplaceEvents ==
    {Ev("graph.replace", g, Undefined) :
        g \in {Graph(MAX_NODES + 1, 1), Graph(3, MAX_EDGES + 1),
               [js |-> "object", nodes |-> Arr(2, "idMissing"), edges |-> Arr(1, "none")]}}

NextGraphData ==
    \/ HandleGraphLoadedEvent(GraphLoads)
    \/ HandleStreamEvent(ReplaceEvents)
    \/ HandleStreamEvent(UncheckedReplaceEvents)

SpecGraphData == InitReducer /\ [][NextGraphData]_vars

\* C38: the graph the rich shell holds is absent, or it has the shape
\* validateGraphData accepts and at most MAX_NODES nodes and MAX_EDGES edges
C38_GraphDataValid ==
    state.graphData # Null => checkGraphLimits(state.graphData).valid

\* an upload sets the graph only to one that passes checkGraphLimits
C38_UploadedGraphValid ==
    [][(lastInput'.handler = "handleGraphLoadedEvent" /\ state'.graphData # state.graphData)
          => checkGraphLimits(state'.graphData).valid]_vars

(***************************************************************************)
(* The uploader's synchronization with the backend against what the        *)
(* handler made of the payload.                                            *)
(***************************************************************************)
\* a step in which parseGraph calls onGraphLoaded and loadGraph
CallsLoadGraph == Len(upCalls') > Len(upCalls)

\* task i's loadGraph resolves in this step
SyncSucceeds(i) == upTasks[i].pc = "syncing" /\ upTasks'[i].pc = "synced"

\* C39: the uploader calls loadGraph only for a payload the handler has put
\* into graphData, and reports success only for such a payload
C39_SyncOnlyCommitted ==
    [][/\ CallsLoadGraph => state'.graphData = lastInput'.arg
       /\ \A i \in 1..Len(upTasks) :
             SyncSucceeds(i)
                => (checkGraphLimits(upTasks[i].text.value).valid /\ upStatus' = "success")]_vars

\* what holds instead: loadGraph is called for every payload that passes
\* parseGraph's own test, and the handler has put it into graphData exactly
\* when checkGraphLimits accepts it
C39_SyncWhateverParsed ==
    [][CallsLoadGraph
          => /\ lastInput'.handler = "handleGraphLoadedEvent"
             /\ (state'.graphData = lastInput'.arg) = checkGraphLimits(lastInput'.arg).valid
             /\ ~checkGraphLimits(lastInput'.arg).valid => state'.graphData = state.graphData]_vars

(***************************************************************************)
(* The waiting flag of the chat.  App.handleSendChat sets it and hands the *)
(* command to the wrapper's sendMessage; the agent answers a command it    *)
(* has received with an assistant message or an error log entry, on the    *)
(* connection the command came in on.  The chat panel lets the user submit *)
(* when the status App last rendered is open.                              *)
(***************************************************************************)
\* what the agent answers a chat command with
AgentReplies ==
    {Ev("agent.message", [js |-> "object", role |-> Str("assistant"), content |-> Str("hi")],
        Undefined),
     Ev("agent.log", [js |-> "object", message |-> Str("failed")], Str("error"))}

agentFrame == <<limitsVars, breakerVars, retryVars, uploaderVars, chatPanelVars,
                debounceVars, shellVars, inputVars, listVars, simVars, backoffVars,
                layoutVars>>

\* sendMessageSafely as the render that made the callback saw the status
sendMessageSafelyAsRendered(c, m) ==
    [sendMessageSafely([c EXCEPT !.status = c.uiStatus], m, FALSE) EXCEPT !.status = c.status]

\* handleSendChat(text) for a text that is not blank; a send is started only
\* when its answer can still be handled within MaxHandled
HandleSendChat ==
    /\ mounted
    /\ uiStatus = "open"
    /\ handled + agPending + 2 <= MaxHandled
    /\ nextMsg <= MaxMsgs
    /\ RunHandlerCore("setWaitingForAgent", [b |-> TRUE], setWaitingForAgent(TRUE))
    /\ Commit(sendMessageSafelyAsRendered(Cur, nextMsg), "sendMessage")
    /\ agPending' = IF socketRef = "OPEN" THEN agPending + 1 ELSE agPending
    /\ offeredNotOpen' = IF socketRef = "OPEN" THEN offeredNotOpen
                         ELSE offeredNotOpen \cup {nextMsg}
    /\ nextMsg' = nextMsg + 1
    /\ UNCHANGED <<mounted, manualClosed, autoRetries, pendingEvent, frameDropped,
                   agentFrame>>

\* the agent's answer to a command arrives and is handled
AgentAnswers ==
    /\ mounted
    /\ socketRef = "OPEN"
    /\ agPending > 0
    /\ \E e \in AgentReplies : RunHandlerCore("handleStreamEvent", e, handleStreamEvent(e))
    /\ agPending' = agPending - 1
    /\ UNCHANGED <<streamVars, pendingEvent, frameDropped, agentFrame>>

\* the referenced socket's close event: the agent's side of the connection is
\* gone, and with it the commands it had not answered
ConnectionLost ==
    /\ mounted
    /\ socketRef \in {"CONNECTING", "OPEN", "CLOSING"}
    /\ Commit(onclose([Cur EXCEPT !.socketRef = "CLOSED"]), "onclose")
    /\ agPending' = 0
    /\ UNCHANGED <<offeredNotOpen, nextMsg, mounted, manualClosed, autoRetries,
                   reducerVars, handlerVars, agentFrame>>

\* App renders with the status set since its last render; the graph.request
\* its effect sends is the same message every time, numbered 0
RenderChat ==
    /\ mounted
    /\ ~unmounted
    /\ RenderPending
    /\ Commit(graphRequestEffect([Cur EXCEPT !.uiStatus = status], 0), "render")
    /\ UNCHANGED <<offeredNotOpen, nextMsg, mounted, manualClosed, autoRetries, appVars>>

NextWaiting ==
    \/ Mount
    \/ AfterRenderSocketOpen
    \/ ConnectionLost
    \/ RenderChat
    \/ AfterRenderReconnectTimerFires
    \/ AfterRenderRetryTimerFires
    \/ HandleSendChat
    \/ AgentAnswers

\* React renders after a state change, timers fire, and the agent answers the
\* commands it holds while the connection lasts
SpecWaitingFair ==
    /\ InitReducer
    /\ [][NextWaiting]_vars
    /\ WF_vars(RenderChat)
    /\ WF_vars(AfterRenderReconnectTimerFires)
    /\ WF_vars(AfterRenderRetryTimerFires)
    /\ WF_vars(AfterRenderSocketOpen)
    /\ WF_vars(AgentAnswers)

\* a counter of the client or the wrapper is at its cap, so that a timer or
\* an event of the socket may be held back by the cap alone
ClientAtBound ==
    \/ attemptsRef >= MaxAttempts
    \/ retryCountRef >= MaxRetryCount
    \/ staleRetryTimers >= MaxStaleTimers
    \/ detached >= MaxDetached

\* C40: whenever isWaitingForAgent is true it eventually becomes false, also
\* when the chat command was dropped because the transport was not open and
\* when the connection closes before any reply.  A behaviour that runs into
\* a cap of the client's counters is not held against the property.
C40_WaitingEventuallyCleared ==
    state.isWaitingForAgent ~> (~state.isWaitingForAgent \/ ClientAtBound)

\* while the agent holds an unanswered command the flag is eventually cleared
\* or the connection is lost
C40_ClearedWhenAnswered ==
    (state.isWaitingForAgent /\ agPending > 0)
        ~> (~state.isWaitingForAgent \/ agPending = 0)

====
